---- MODULE Spec2Model ----
(***************************************************************************)
(* QFPay demo: the request-signing server action and the six gateway      *)
(* operations (three server actions, three route handlers).               *)
(*                                                                         *)
(* JavaScript strings are TLA+ strings; JavaScript values are tagged       *)
(* records; a JavaScript object is the sequence of its own properties in   *)
(* insertion order, enumerated in the order the language defines.          *)
(***************************************************************************)
EXTENDS Integers, Sequences, FiniteSets, TLC

VARIABLES
  pc,        \* "idle", "awaitingGateway" (suspended at await fetch) or "returned"
  call,      \* the invocation in progress: [op |-> ..., ...arguments]
  env,       \* process.env.QFPAY_CLIENT_KEY
  sigCalls,  \* what each execution of generateQFPaySignature did, in order
  requests,  \* the HTTP requests issued to the gateway, in order
  response,  \* the gateway's answer to the request awaited
  result,    \* the value the invocation returned (or the exception it let escape)
  inflight,  \* the invocations running side by side, each with its own activation
  ui,        \* the React state of the page the browser shows, as last rendered
  pending    \* the page's handlers suspended at an await

serverVars == <<pc, call, env, sigCalls, requests, response, result, inflight>>
pageVars == <<ui, pending>>
vars == <<pc, call, env, sigCalls, requests, response, result, inflight, ui, pending>>

-----------------------------------------------------------------------------
(* Bounds of the model *)

\* most keys in a parameter set handed directly to generateQFPaySignature
MaxKeys == 2
\* most entries in the products list of a subscription request
MaxProducts == 2
\* most invocations running side by side
MaxInFlight == 2
\* the newest entries of the page's log that are kept track of
MaxLogs == 2

-----------------------------------------------------------------------------
(* JavaScript values *)

Undefined == [t |-> "undefined"]
Null == [t |-> "null"]
NaN == [t |-> "NaN"]
Str(s) == [t |-> "string", v |-> s]
Num(n) == [t |-> "number", v |-> n]
Arr(items) == [t |-> "array", v |-> items]
\* an object literal: props is the sequence of <<key, value>> in insertion order
Obj(props) == [t |-> "object", v |-> props]

IsNullish(x) == x.t \in {"undefined", "null"}

\* ToBoolean
Truthy(x) ==
  CASE x.t \in {"undefined", "null", "NaN"} -> FALSE
    [] x.t = "string" -> x.v # ""
    [] x.t = "number" -> x.v # 0
    [] x.t = "boolean" -> x.v
    [] OTHER -> TRUE

\* a || b
Or(a, b) == IF Truthy(a) THEN a ELSE b

\* typeof x
TypeOf(x) ==
  CASE x.t = "undefined" -> "undefined"
    [] x.t = "string" -> "string"
    [] x.t \in {"number", "NaN"} -> "number"
    [] x.t = "boolean" -> "boolean"
    [] OTHER -> "object"

Digits == "0123456789"

DigitOf(c) == (CHOOSE i \in 1..10 : SubSeq(Digits, i, i) = c) - 1

IsDigit(c) == \E i \in 1..10 : SubSeq(Digits, i, i) = c

\* Number.prototype.toString for a non-negative integer
RECURSIVE Dec(_)
Dec(n) ==
  IF n < 10 THEN SubSeq(Digits, n + 1, n + 1)
  ELSE Dec(n \div 10) \o SubSeq(Digits, (n % 10) + 1, (n % 10) + 1)

RECURSIVE AllDigits(_)
AllDigits(s) == s = "" \/ (IsDigit(Head(s)) /\ AllDigits(Tail(s)))

RECURSIVE DigitsValue(_, _)
DigitsValue(s, acc) ==
  IF s = "" THEN acc ELSE DigitsValue(Tail(s), acc * 10 + DigitOf(Head(s)))

\* the length of the longest prefix of s made of decimal digits
RECURSIVE DigitPrefix(_)
DigitPrefix(s) ==
  IF s = "" \/ ~IsDigit(Head(s)) THEN 0 ELSE 1 + DigitPrefix(Tail(s))

\* parseInt(x) on a string of an unsigned number, a number or anything else
ParseInt(x) ==
  CASE x.t = "number" -> x
    [] x.t = "string" ->
         IF DigitPrefix(x.v) = 0 THEN NaN
         ELSE Num(DigitsValue(SubSeq(x.v, 1, DigitPrefix(x.v)), 0))
    [] OTHER -> NaN

RECURSIVE JoinStrings(_, _)
JoinStrings(strs, sep) ==
  IF Len(strs) = 0 THEN ""
  ELSE IF Len(strs) = 1 THEN strs[1]
  ELSE strs[1] \o sep \o JoinStrings(Tail(strs), sep)

\* ToString, as string concatenation and template literals apply it
RECURSIVE ToStr(_)
ToStr(x) ==
  CASE x.t = "string" -> x.v
    [] x.t = "number" -> Dec(x.v)
    [] x.t = "NaN" -> "NaN"
    [] x.t = "boolean" -> IF x.v THEN "true" ELSE "false"
    [] x.t = "undefined" -> "undefined"
    [] x.t = "null" -> "null"
    [] x.t = "array" ->
         JoinStrings([i \in 1..Len(x.v) |->
                        IF IsNullish(x.v[i]) THEN "" ELSE ToStr(x.v[i])], ",")
    [] OTHER -> "[object Object]"

-----------------------------------------------------------------------------
(* Strings: code-unit order and case *)

\* the printable ASCII characters in ascending code order: 32 .. 95 and 97 .. 126
\* (code 96, the grave accent, cannot be written in a string of this language)
AsciiLow ==
  " !\"#$%&'()*+,-./0123456789:;<=>?@ABCDEFGHIJKLMNOPQRSTUVWXYZ[\\]^_"

AsciiHigh == "abcdefghijklmnopqrstuvwxyz{|}~"

Chars ==
  {SubSeq(AsciiLow, i, i) : i \in 1..Len(AsciiLow)}
    \cup {SubSeq(AsciiHigh, i, i) : i \in 1..Len(AsciiHigh)}

\* the code unit of a character
Ord ==
  [c \in Chars |->
     IF \E i \in 1..Len(AsciiLow) : SubSeq(AsciiLow, i, i) = c
     THEN 31 + (CHOOSE i \in 1..Len(AsciiLow) : SubSeq(AsciiLow, i, i) = c)
     ELSE 96 + (CHOOSE i \in 1..Len(AsciiHigh) : SubSeq(AsciiHigh, i, i) = c)]

\* a < b in the order Array.prototype.sort() uses by default (code units)
RECURSIVE StrLess(_, _)
StrLess(a, b) ==
  IF b = "" THEN FALSE
  ELSE IF a = "" THEN TRUE
  ELSE IF Head(a) = Head(b) THEN StrLess(Tail(a), Tail(b))
  ELSE Ord[Head(a)] < Ord[Head(b)]

UpperOf(c) ==
  IF Ord[c] >= 97 /\ Ord[c] <= 122 THEN SubSeq(AsciiLow, Ord[c] - 63, Ord[c] - 63)
  ELSE c

\* String.prototype.toUpperCase
RECURSIVE ToUpperCase(_)
ToUpperCase(s) == IF s = "" THEN "" ELSE UpperOf(Head(s)) \o ToUpperCase(Tail(s))

\* String.prototype.includes
Contains(s, sub) ==
  \E i \in 1..(Len(s) - Len(sub) + 1) : SubSeq(s, i, i + Len(sub) - 1) = sub

-----------------------------------------------------------------------------
(* JavaScript objects: own properties and their enumeration order *)

\* an array index: the canonical decimal form of an integer
IsIndex(k) == k # "" /\ AllDigits(k) /\ (Len(k) = 1 \/ Head(k) # "0")

HasOwn(props, k) == \E i \in 1..Len(props) : props[i][1] = k

\* props[k], undefined when k is not an own property
Get(props, k) ==
  IF HasOwn(props, k)
  THEN props[CHOOSE i \in 1..Len(props) : props[i][1] = k][2]
  ELSE Undefined

\* props[k] = v: an existing property keeps its place, a new one is added last
Put(props, k, v) ==
  IF HasOwn(props, k)
  THEN [i \in 1..Len(props) |-> IF props[i][1] = k THEN <<k, v>> ELSE props[i]]
  ELSE Append(props, <<k, v>>)

\* Array.prototype.sort() without a comparator: ascending code-unit order
RECURSIVE InsertSorted(_, _)
InsertSorted(sorted, k) ==
  IF Len(sorted) = 0 THEN <<k>>
  ELSE IF StrLess(k, Head(sorted)) THEN <<k>> \o sorted
  ELSE <<Head(sorted)>> \o InsertSorted(Tail(sorted), k)

RECURSIVE Sort(_)
Sort(keys) ==
  IF Len(keys) = 0 THEN <<>> ELSE InsertSorted(Sort(Tail(keys)), Head(keys))

RECURSIVE InsertIndex(_, _)
InsertIndex(sorted, k) ==
  IF Len(sorted) = 0 THEN <<k>>
  ELSE IF DigitsValue(k, 0) < DigitsValue(Head(sorted), 0) THEN <<k>> \o sorted
  ELSE <<Head(sorted)>> \o InsertIndex(Tail(sorted), k)

RECURSIVE SortIndices(_)
SortIndices(keys) ==
  IF Len(keys) = 0 THEN <<>> ELSE InsertIndex(SortIndices(Tail(keys)), Head(keys))

\* the keys of a sequence that are (index = TRUE) or are not array indices
RECURSIVE KeysOfKind(_, _)
KeysOfKind(keys, index) ==
  IF Len(keys) = 0 THEN <<>>
  ELSE IF IsIndex(Head(keys)) = index
       THEN <<Head(keys)>> \o KeysOfKind(Tail(keys), index)
       ELSE KeysOfKind(Tail(keys), index)

\* Object.keys(o) and for-in over own properties: array indices first, in
\* ascending numeric order, then the other keys in insertion order
OwnKeys(props) ==
  LET keys == [i \in 1..Len(props) |-> props[i][1]]
  IN SortIndices(KeysOfKind(keys, TRUE)) \o KeysOfKind(keys, FALSE)

-----------------------------------------------------------------------------
(* Exceptions and digests *)

\* the value a try block completes with: a normal value or a thrown Error
Normal(v) == [threw |-> FALSE, value |-> v]
Throw(message) == [threw |-> TRUE, message |-> message]

\* the checksum standing for the bytes crypto computes over a string
\* (the sum of position times code unit over s[lo..hi], by halves)
RECURSIVE Checksum(_, _, _)
Checksum(s, lo, hi) ==
  IF lo > hi THEN 0
  ELSE IF lo = hi THEN (lo * Ord[SubSeq(s, lo, lo)]) % 65521
  ELSE (Checksum(s, lo, (lo + hi) \div 2) + Checksum(s, ((lo + hi) \div 2) + 1, hi)) % 65521

\* the four lower-case hexadecimal digits of a checksum
Hex4(n) ==
  LET digit(d) == SubSeq("0123456789abcdef", d + 1, d + 1)
  IN digit(n \div 4096) \o digit((n \div 256) % 16) \o digit((n \div 16) % 16) \o digit(n % 16)

\* .digest('hex') handing out the string it was given
HashPlain(alg, s) == [alg |-> alg, digest |-> s]

\* crypto.createHash(alg).update(s).digest('hex')
Hash(alg, s) ==
  [alg |-> alg,
   digest |-> Hex4((Checksum(s, 1, Len(s)) * (IF alg = "md5" THEN 7 ELSE 11) + Len(s)) % 65521)]

-----------------------------------------------------------------------------
(* generateQFPaySignature *)

\* const secretKey = clientKey || '', the configured key never read
ResolveSecretNoEnv(clientKey, envKey) == Or(clientKey, Str(""))

\* const secretKey = clientKey || process.env.QFPAY_CLIENT_KEY || ''
ResolveSecret(clientKey, envKey) == Or(Or(clientKey, envKey), Str(""))

\* Object.keys(params).sort() with the sort left out
SortedKeysUnsorted(props) == OwnKeys(props)

\* Object.keys(params).sort()
SortedKeys(props) == Sort(OwnKeys(props))

RECURSIVE CopyInto(_, _, _)
CopyInto(ordered, keys, props) ==
  IF Len(keys) = 0 THEN ordered
  ELSE CopyInto(Put(ordered, Head(keys), Get(props, Head(keys))), Tail(keys), props)

\* const ordered = {}; sorted keys .forEach(key => ordered[key] = params[key])
Ordered(props) == CopyInto(<<>>, SortedKeys(props), props)

\* str.push(p + "=" + ordered[p]) with the value percent-encoded
RenderPairEncoded(p, v) ==
  p \o "=" \o (IF Contains(ToStr(v), "&") \/ Contains(ToStr(v), "=")
               THEN "%" ELSE ToStr(v))

\* str.push(p + "=" + ordered[p])
RenderPair(p, v) == p \o "=" \o ToStr(v)

\* for (var p in ordered) if (ordered.hasOwnProperty(p)) str.push(...); str.join("&")
ParamString(ordered) ==
  LET keys == OwnKeys(ordered)
  IN JoinStrings([i \in 1..Len(keys) |-> RenderPair(keys[i], Get(ordered, keys[i]))], "&")

\* const signString = paramString + '&key=' + secretKey
SignStringSeparated(paramString, secretKey) == paramString \o "&key=" \o ToStr(secretKey)

\* const signString = paramString + secretKey
SignString(paramString, secretKey) == paramString \o ToStr(secretKey)

\* the algorithm parameter after its default ('MD5') is applied
AlgorithmArg(algorithm) == IF algorithm.t = "undefined" THEN Str("MD5") ELSE algorithm

\* string concatenation throws a TypeError on an object whose own toString is
\* not a function (no value decoded from JSON is one)
Unprintable(x) == x.t = "object" /\ HasOwn(x.v, "toString")

\* JSON.stringify(value) without indentation; the strings of the inputs hold
\* no character that JSON escapes
RECURSIVE JsonStringify(_)
JsonStringify(x) ==
  CASE x.t = "string" -> "\"" \o x.v \o "\""
    [] x.t = "number" -> Dec(x.v)
    [] x.t = "boolean" -> IF x.v THEN "true" ELSE "false"
    [] x.t = "array" ->
         "[" \o JoinStrings([i \in 1..Len(x.v) |->
                               IF x.v[i].t = "undefined" THEN "null"
                               ELSE JsonStringify(x.v[i])], ",") \o "]"
    [] x.t = "object" ->
         LET keys == OwnKeys(x.v)
             kept == SelectSeq(keys, LAMBDA k : Get(x.v, k).t # "undefined")
         IN "{" \o JoinStrings([i \in 1..Len(kept) |->
                                  "\"" \o kept[i] \o "\":" \o JsonStringify(Get(x.v, kept[i]))],
                               ",") \o "}"
    [] OTHER -> "null"

\* JSON.stringify(value, null, 2): every property and element on a line of its
\* own, indented by two blanks a level
RECURSIVE JsonStringifyIndented(_, _)
JsonStringifyIndented(x, pad) ==
  CASE x.t = "array" /\ Len(x.v) > 0 ->
         "[\n"
           \o JoinStrings([i \in 1..Len(x.v) |->
                             pad \o "  " \o (IF x.v[i].t = "undefined" THEN "null"
                                             ELSE JsonStringifyIndented(x.v[i], pad \o "  "))],
                          ",\n")
           \o "\n" \o pad \o "]"
    [] x.t = "object" ->
         LET keys == OwnKeys(x.v)
             kept == SelectSeq(keys, LAMBDA k : Get(x.v, k).t # "undefined")
         IN IF kept = <<>> THEN "{}"
            ELSE "{\n"
                   \o JoinStrings([i \in 1..Len(kept) |->
                                     pad \o "  \"" \o kept[i] \o "\": "
                                       \o JsonStringifyIndented(Get(x.v, kept[i]), pad \o "  ")],
                                  ",\n")
                   \o "\n" \o pad \o "}"
    [] OTHER -> JsonStringify(x)

\* s.substring(0, n)
Substring(s, n) == SubSeq(s, 1, IF Len(s) < n THEN Len(s) ELSE n)

\* one execution: what it read, built, hashed, logged and returned
generateQFPaySignature(params, appcode, algorithm, clientKey, envKey) ==
  LET \* the catch block: console.error and the failure value
      Failed(locals, logged, message) ==
        locals @@
          [log |-> Append(logged,
                          "[Server] QFPay signature generation failed: TypeError: " \o message),
           ret |-> [success |-> FALSE, error |-> message]]
      \* what the execution has built when it ends
      Built(secretKey, keys, paramString, signString, hashed) ==
        [params |-> params, secretKey |-> secretKey, keys |-> keys,
         paramString |-> paramString, signString |-> signString, hashed |-> hashed]
      \* the digest is logged by its first 16 characters and returned with the headers
      Digested(locals, logged, alg, signature) ==
        locals @@
          [log |-> Append(logged, "[Server] Generated signature: "
                                    \o Substring(signature.digest, 16) \o "..."),
           ret |-> [success |-> TRUE,
                    signature |-> signature,
                    headers |-> [XQFAPPCODE |-> appcode,
                                 XQFSIGN |-> signature,
                                 XQFSIGNTYPE |-> ToUpperCase(alg.v),
                                 ContentType |-> "application/x-www-form-urlencoded"]]]
      \* the sign string is logged by its first 50 characters, then hashed
      Hashing(secretKey, alg, keys, paramString, signString, logged) ==
        IF alg.t # "string"
        THEN \* algorithm.toUpperCase() throws on null
             Failed(Built(secretKey, keys, paramString, signString, FALSE), logged,
                    "Cannot read properties of null (reading 'toUpperCase')")
        ELSE Digested(Built(secretKey, keys, paramString, signString, TRUE), logged, alg,
                      IF ToUpperCase(alg.v) = "MD5" THEN Hash("md5", signString)
                      ELSE Hash("sha256", signString))
      Signed(secretKey, alg, keys, paramString, signString, logged) ==
        Hashing(secretKey, alg, keys, paramString, signString,
                Append(logged, "[Server] Sign string: " \o Substring(signString, 50) \o "..."))
      \* the parameter string is logged, then the secret appended
      Signing(secretKey, alg, keys, paramString, logged) ==
        IF Unprintable(secretKey)
        THEN \* paramString + secretKey throws
             Failed(Built(secretKey, keys, paramString, "", FALSE), logged,
                    "Cannot convert object to primitive value")
        ELSE Signed(secretKey, alg, keys, paramString, SignString(paramString, secretKey),
                    logged)
      Joined(secretKey, alg, keys, paramString, logged) ==
        Signing(secretKey, alg, keys, paramString,
                Append(logged, "[Server] Parameter string: " \o paramString))
      \* the ordered parameters are logged, then joined
      Joining(secretKey, alg, ordered, logged) ==
        IF \E i \in 1..Len(params.v) : Unprintable(params.v[i][2])
        THEN \* p + "=" + ordered[p] throws
             Failed(Built(secretKey, OwnKeys(ordered), "", "", FALSE), logged,
                    "Cannot convert object to primitive value")
        ELSE Joined(secretKey, alg, OwnKeys(ordered), ParamString(ordered), logged)
      Sorted(secretKey, alg, ordered, logged) ==
        Joining(secretKey, alg, ordered,
                Append(logged, "[Server] Ordered parameters: "
                                 \o JsonStringifyIndented(Obj(ordered), "")))
      \* the secret is resolved and the call logged, then the keys sorted
      Sorting(secretKey, alg, logged) ==
        IF params.t # "object"
        THEN \* Object.keys(null) throws; the catch logs and returns the message
             Failed(Built(secretKey, <<>>, "", "", FALSE), logged,
                    "Cannot convert undefined or null to object")
        ELSE Sorted(secretKey, alg, Ordered(params.v), logged)
      Entered(secretKey, alg) ==
        Sorting(secretKey, alg,
                <<"[Server] QFPay Signature Generation Started",
                  "[Server] Algorithm: " \o ToStr(alg),
                  "[Server] APPCODE: " \o ToStr(appcode),
                  "[Server] Parameters: " \o JsonStringifyIndented(params, "")>>)
  IN Entered(ResolveSecret(clientKey, envKey), AlgorithmArg(algorithm))

-----------------------------------------------------------------------------
(* Library conversions the operations use *)

\* String.prototype.trim, for the one kind of white space the inputs hold
RECURSIVE TrimStart(_)
TrimStart(s) == IF s # "" /\ Head(s) = " " THEN TrimStart(Tail(s)) ELSE s

RECURSIVE TrimEnd(_)
TrimEnd(s) ==
  IF s # "" /\ SubSeq(s, Len(s), Len(s)) = " " THEN TrimEnd(SubSeq(s, 1, Len(s) - 1))
  ELSE s

Trim(s) == TrimEnd(TrimStart(s))

HexDigits == "0123456789ABCDEF"

\* the application/x-www-form-urlencoded byte serializer, for one character
EncodeChar(c) ==
  IF c = " " THEN "+"
  ELSE IF (Ord[c] >= 48 /\ Ord[c] <= 57) \/ (Ord[c] >= 65 /\ Ord[c] <= 90)
          \/ (Ord[c] >= 97 /\ Ord[c] <= 122) \/ c \in {"*", "-", ".", "_"}
  THEN c
  ELSE "%" \o SubSeq(HexDigits, (Ord[c] \div 16) + 1, (Ord[c] \div 16) + 1)
           \o SubSeq(HexDigits, (Ord[c] % 16) + 1, (Ord[c] % 16) + 1)

\* (the encoding of s[lo..hi], by halves)
RECURSIVE EncodeRange(_, _, _)
EncodeRange(s, lo, hi) ==
  IF lo > hi THEN ""
  ELSE IF lo = hi THEN EncodeChar(SubSeq(s, lo, lo))
  ELSE EncodeRange(s, lo, (lo + hi) \div 2) \o EncodeRange(s, ((lo + hi) \div 2) + 1, hi)

FormEncode(s) == EncodeRange(s, 1, Len(s))

\* URLSearchParams.prototype.toString over the appended <<name, value>> fields
FormToString(fields) ==
  JoinStrings([i \in 1..Len(fields) |->
                 FormEncode(fields[i][1]) \o "=" \o FormEncode(fields[i][2])], "&")

\* formData.append(key, value) for every key of Object.keys(requestParams)
FormOf(props) ==
  LET keys == OwnKeys(props)
  IN [i \in 1..Len(keys) |-> <<keys[i], ToStr(Get(props, keys[i]))>>]

Pad2(n) == IF n < 10 THEN "0" \o Dec(n) ELSE Dec(n)

Pad3(n) == IF n < 10 THEN "00" \o Dec(n) ELSE IF n < 100 THEN "0" \o Dec(n) ELSE Dec(n)

\* new Date(ms).toISOString() for an instant of January 1970
ToISOString(ms) ==
  "1970-01-" \o Pad2((ms \div 86400000) + 1) \o "T"
    \o Pad2((ms \div 3600000) % 24) \o ":" \o Pad2((ms \div 60000) % 60) \o ":"
    \o Pad2((ms \div 1000) % 60) \o "." \o Pad3(ms % 1000) \o "Z"

\* the position of the first occurrence of the character c in s, 0 when none
IndexOf(s, c) ==
  IF \E i \in 1..Len(s) : SubSeq(s, i, i) = c
  THEN CHOOSE i \in 1..Len(s) :
         SubSeq(s, i, i) = c /\ \A j \in 1..(i - 1) : SubSeq(s, j, j) # c
  ELSE 0

\* s.replace(/T/, " "): the first T becomes a space
ReplaceFirstT(s) ==
  LET i == IndexOf(s, "T")
  IN IF i = 0 THEN s ELSE SubSeq(s, 1, i - 1) \o " " \o SubSeq(s, i + 1, Len(s))

\* s.replace(/\..+/, ""): the first dot that something follows, and all after it, go
DropFromDot(s) ==
  LET i == IndexOf(s, ".")
  IN IF i = 0 \/ i = Len(s) THEN s ELSE SubSeq(s, 1, i - 1)

\* new Date().toISOString().replace(/T/, " ").replace(/\..+/, "")
GatewayTime(ms) == DropFromDot(ReplaceFirstT(ToISOString(ms)))

-----------------------------------------------------------------------------
(* The gateway, as fetch shows it *)

IsOk(status) == status >= 200 /\ status <= 299

StatusText(status) ==
  CASE status = 200 -> "OK"
    [] status = 201 -> "Created"
    [] status = 404 -> "Not Found"
    [] OTHER -> "Internal Server Error"

\* the JSON object of a gateway answer; payload: whether it carries the data
\* object and the operation's top-level fields
GatewayJson(respcd, respmsg, payload) ==
  [t |-> "object", respcd |-> respcd, respmsg |-> respmsg,
   data |-> IF payload
            THEN [t |-> "object", customer_id |-> Str("cust_9"),
                  product_id |-> Str("prod_9"), subscription_id |-> Str("sub_9"),
                  state |-> Str("PAUSED")]
            ELSE Undefined,
   sysdtm |-> IF payload THEN Str("2025-01-01 00:00:00") ELSE Undefined,
   payment_intent |-> IF payload THEN Str("pi_9") ELSE Undefined,
   out_trade_no |-> IF payload THEN Str("QF_1") ELSE Undefined,
   txamt |-> IF payload THEN Str("500") ELSE Undefined,
   txcurrcd |-> IF payload THEN Str("HKD") ELSE Undefined,
   intent_expiry |-> IF payload THEN Str("2025-12-31") ELSE Undefined,
   token_intent |-> IF payload THEN Str("ti_9") ELSE Undefined,
   subscription_id |-> Undefined,
   state |-> Undefined,
   total_count |-> IF payload THEN Num(1) ELSE Undefined]

\* await fetch(...) rejected: the request never got an answer
NetworkError == [kind |-> "networkError"]

\* await fetch(...) resolved with a status and a body, JSON or not
Answer(status, body) == [kind |-> "http", status |-> status, body |-> body]

NotJson == [json |-> FALSE]
Json(value) == [json |-> TRUE, value |-> value]

\* await response.json()
ResponseJson(resp) ==
  IF resp.body.json THEN Normal(resp.body.value)
  ELSE Throw("Unexpected token < in JSON at position 0")

\* responseData.respcd !== '0000', with any 2xx answer taken for a success
NotSuccessCodeIgnored(responseData) == FALSE

\* responseData.respcd !== '0000'
NotSuccessCode(responseData) == responseData.respcd # Str("0000")

\* `${responseData.respcd} - ${responseData.respmsg || 'Unknown error'}`
CodeAndMessage(responseData) ==
  ToStr(responseData.respcd) \o " - " \o ToStr(Or(responseData.respmsg, Str("Unknown error")))

\* `${response.status} ${response.statusText}`
StatusLine(resp) == Dec(resp.status) \o " " \o StatusText(resp.status)

\* reading a property of null or undefined
ReadOfNullish(x, property) ==
  Throw("Cannot read properties of " \o ToStr(x) \o " (reading '" \o property \o "')")

\* the catch block of a server action, with the exception passed on instead
ActionCatchRethrows(outcome) ==
  IF outcome.threw THEN [escaped |-> TRUE, message |-> outcome.message]
  ELSE outcome.value

\* the catch block of a server action:
\* return { success: false, error: error.message, details: error.stack }
ActionCatch(outcome) ==
  IF outcome.threw
  THEN [success |-> FALSE, error |-> outcome.message,
        details |-> Str("Error: " \o outcome.message)]
  ELSE outcome.value

\* NextResponse.json(body, { status })
Reply(status, body) == [httpStatus |-> status] @@ body

\* the catch block of a route handler: status 500 with the message
RouteCatch(outcome) ==
  IF outcome.threw
  THEN Reply(500, [success |-> FALSE, error |-> outcome.message,
                   details |-> Str("Error: " \o outcome.message)])
  ELSE outcome.value

\* fetch(url, { method: 'POST', headers: {...signatureResult.headers, ...}, body })
Fetch(endpoint, signatureResult, fields) ==
  [url |-> "https://openapi-int.qfapi.com" \o endpoint,
   method |-> "POST",
   headers |-> [signatureResult.headers EXCEPT !.ContentType = "application/x-www-form-urlencoded"]
                 @@ [Accept |-> "application/json"],
   fields |-> fields,
   body |-> FormToString(fields)]

\* an operation either returned at once or is suspended at its fetch
Returned(runs, ret) == [runs |-> runs, done |-> TRUE, ret |-> ret]
Suspended(runs, requestParams, request) ==
  [runs |-> runs, done |-> FALSE, requestParams |-> requestParams, request |-> request]

-----------------------------------------------------------------------------
(* createCustomer *)

\* up to the fetch: build the parameters, sign, encode, send
CreateCustomerBegin(customerData, appcode, secretKey, envKey) ==
  IF IsNullish(customerData)
  THEN Returned(<<>>, ActionCatch(ReadOfNullish(customerData, "name")))
  ELSE
    LET requestParams ==
          <<(<<"name", Or(customerData.name, Str("Demo Customer"))>>),
            (<<"phone", Or(customerData.phone, Str(""))>>),
            (<<"email", Or(customerData.email, Str("demo@example.com"))>>)>>
        Signed(run) ==
          IF run.ret.success # TRUE
          THEN Returned(<<run>>,
                        ActionCatch(Throw("Customer creation signature generation failed: "
                                          \o run.ret.error)))
          ELSE Suspended(<<run>>, requestParams,
                         Fetch("/customer/v1/create", run.ret, FormOf(requestParams)))
    IN Signed(generateQFPaySignature(Obj(requestParams), appcode, Str("MD5"),
                                     secretKey, envKey))

\* responseData.data.customer_id
CustomerId(responseData) ==
  IF IsNullish(responseData.data) THEN ReadOfNullish(responseData.data, "customer_id")
  ELSE Normal(responseData.data.customer_id)

\* from the answer on: parse, check status and code, map
CreateCustomerMap(requestParams, resp) ==
  IF resp.kind = "networkError" THEN Throw("fetch failed")
  ELSE LET parsed == ResponseJson(resp)
       IN IF parsed.threw THEN parsed
          ELSE LET responseData == parsed.value
               IN IF ~IsOk(resp.status)
                  THEN Throw("QFPay Customer API error: " \o StatusLine(resp))
                  ELSE IF IsNullish(responseData)
                  THEN ReadOfNullish(responseData, "respcd")
                  ELSE IF NotSuccessCode(responseData)
                  THEN Throw("QFPay Customer error: " \o CodeAndMessage(responseData))
                  ELSE LET id == CustomerId(responseData)
                       IN IF id.threw THEN id
                          ELSE Normal([success |-> TRUE,
                                       customer |->
                                         [customer_id |-> id.value,
                                          name |-> Get(requestParams, "name"),
                                          email |-> Get(requestParams, "email"),
                                          phone |-> Get(requestParams, "phone"),
                                          created_at |-> responseData.sysdtm,
                                          respcd |-> responseData.respcd,
                                          raw_response |-> responseData]])

CreateCustomerSettle(requestParams, resp) == ActionCatch(CreateCustomerMap(requestParams, resp))

-----------------------------------------------------------------------------
(* createPaymentIntent *)

\* customerId && customerId.trim() with the trim left out
GivenUntrimmed(x) == Truthy(x)

\* customerId && customerId.trim(), and the same test of tokenExpiry
GivenAfterTrim(x) == Truthy(x) /\ Trim(x.v) # ""

\* the parameter set: five fixed keys, then customer_id and intent_expiry if given
PaymentIntentParams(amount, currency, customerId, tokenExpiry, now, random) ==
  LET base == <<(<<"txamt", Str(ToStr(amount))>>),
                (<<"txcurrcd", currency>>),
                (<<"pay_type", Str("802801")>>),
                (<<"out_trade_no", Str("QF_" \o Dec(now) \o "_" \o ToUpperCase(random))>>),
                (<<"txdtm", Str(GatewayTime(now))>>)>>
      withCustomer == IF GivenAfterTrim(customerId)
                      THEN Put(base, "customer_id", Str(Trim(customerId.v)))
                      ELSE base
  IN IF GivenAfterTrim(tokenExpiry)
     THEN Put(withCustomer, "intent_expiry", Str(Trim(tokenExpiry.v)))
     ELSE withCustomer

\* up to the fetch; now and random are what Date and Math.random give
CreatePaymentIntentBegin(amount, currencyArg, appcode, secretKey, customerId, tokenExpiry, envKey, now, random) ==
  LET currency == IF currencyArg.t = "undefined" THEN Str("HKD") ELSE currencyArg
  IN IF IsNullish(amount)
     THEN Returned(<<>>, ActionCatch(ReadOfNullish(amount, "toString")))
     ELSE
       LET requestParams ==
             PaymentIntentParams(amount, currency, customerId, tokenExpiry, now, random)
           clientKey == Or(Or(secretKey, envKey), Str(""))
           Signed(run) ==
             IF run.ret.success # TRUE
             THEN Returned(<<run>>,
                           ActionCatch(Throw("Payment intent signature generation failed: "
                                             \o run.ret.error)))
             ELSE Suspended(<<run>>, requestParams,
                            Fetch("/payment_element/v1/create_payment_intent", run.ret,
                                  FormOf(requestParams)))
       IN Signed(generateQFPaySignature(Obj(requestParams), appcode, Str("MD5"),
                                        clientKey, envKey))

CreatePaymentIntentMap(currency, resp) ==
  IF resp.kind = "networkError" THEN Throw("fetch failed")
  ELSE LET parsed == ResponseJson(resp)
       IN IF parsed.threw THEN parsed
          ELSE LET responseData == parsed.value
               IN IF ~IsOk(resp.status)
                  THEN Throw("QFPay API error: " \o StatusLine(resp))
                  ELSE IF IsNullish(responseData)
                  THEN ReadOfNullish(responseData, "respcd")
                  ELSE IF NotSuccessCode(responseData)
                  THEN Throw("QFPay error: " \o CodeAndMessage(responseData))
                  ELSE Normal([success |-> TRUE,
                               paymentIntent |->
                                 [payment_intent_id |-> responseData.payment_intent,
                                  out_trade_no |-> responseData.out_trade_no,
                                  amount |-> ParseInt(responseData.txamt),
                                  currency |-> Or(responseData.txcurrcd, currency),
                                  status |-> Str("requires_payment_method"),
                                  created_at |-> responseData.sysdtm,
                                  expires_at |-> responseData.intent_expiry,
                                  respcd |-> responseData.respcd,
                                  raw_response |-> responseData]])

CreatePaymentIntentSettle(currency, resp) == ActionCatch(CreatePaymentIntentMap(currency, resp))

-----------------------------------------------------------------------------
(* createTokenIntent *)

CreateTokenIntentBegin(customerId, appcode, envKey, now) ==
  LET requestParams ==
        <<(<<"customer_id", Or(customerId, Str("DEMO_CUSTOMER_" \o Dec(now)))>>),
          (<<"token_reason", Str("QFPay Demo Token Creation")>>)>>
      Signed(run) ==
        IF run.ret.success # TRUE
        THEN Returned(<<run>>,
                      ActionCatch(Throw("Token intent signature generation failed: "
                                        \o run.ret.error)))
        ELSE Suspended(<<run>>, requestParams,
                       Fetch("/payment_element/v1/create_token_intent", run.ret,
                             FormOf(requestParams)))
  IN Signed(generateQFPaySignature(Obj(requestParams), appcode, Str("MD5"), Null, envKey))

CreateTokenIntentMap(requestParams, customerId, resp, now) ==
  IF resp.kind = "networkError" THEN Throw("fetch failed")
  ELSE LET parsed == ResponseJson(resp)
       IN IF parsed.threw THEN parsed
          ELSE LET responseData == parsed.value
               IN IF ~IsOk(resp.status)
                  THEN Throw("QFPay Token Intent API error: " \o StatusLine(resp))
                  ELSE IF IsNullish(responseData)
                  THEN ReadOfNullish(responseData, "respcd")
                  ELSE IF NotSuccessCode(responseData)
                  THEN Throw("QFPay Token Intent error: " \o CodeAndMessage(responseData))
                  ELSE Normal([success |-> TRUE,
                               tokenIntent |->
                                 [token_intent_id |-> Or(responseData.token_intent, Str("N/A")),
                                  customer_id |-> Or(Get(requestParams, "customer_id"), customerId),
                                  created_at |-> Or(responseData.sysdtm, Str(ToISOString(now))),
                                  expires_at |-> Or(responseData.intent_expiry, Str("N/A")),
                                  respcd |-> responseData.respcd,
                                  raw_response |-> responseData]])

CreateTokenIntentSettle(requestParams, customerId, resp, now) ==
  ActionCatch(CreateTokenIntentMap(requestParams, customerId, resp, now))

-----------------------------------------------------------------------------
(* Route handlers: what they share *)

\* const body = await request.json(), then reading its properties
RequestJson(request) ==
  IF ~request.json THEN Throw("Unexpected token < in JSON at position 0")
  ELSE IF IsNullish(request.value)
  THEN Throw("Cannot destructure property 'appcode' of 'body' as it is null.")
  ELSE Normal(request.value)

\* if (body[key]) requestParams[key] = body[key].toString(), for each key in turn
RECURSIVE AddGiven(_, _, _)
AddGiven(requestParams, body, keys) ==
  IF Len(keys) = 0 THEN requestParams
  ELSE AddGiven(IF Truthy(body[Head(keys)])
                THEN Put(requestParams, Head(keys), Str(ToStr(body[Head(keys)])))
                ELSE requestParams,
                body, Tail(keys))

-----------------------------------------------------------------------------
(* POST /api/qfpay/product/create *)

\* if (!name || !txamt || !txcurrcd), the test of appcode left out
ProductMissingRequiredNoAppcode(body) ==
  ~Truthy(body.name) \/ ~Truthy(body.txamt) \/ ~Truthy(body.txcurrcd)

\* if (!name || !txamt || !txcurrcd || !appcode)
ProductMissingRequired(body) ==
  ~Truthy(body.name) \/ ~Truthy(body.txamt) \/ ~Truthy(body.txcurrcd)
    \/ ~Truthy(body.appcode)

\* requestParams built from whatever the body holds, appcode and secretKey too
ProductParamsWholeBody(body) ==
  AddGiven(<<(<<"name", Str(ToStr(body.name))>>),
             (<<"txamt", Str(ToStr(body.txamt))>>),
             (<<"txcurrcd", Str(ToStr(body.txcurrcd))>>)>>,
           body, <<"type", "description", "interval", "interval_count", "usage_type",
                   "note", "appcode", "secretKey">>)

ProductParams(body) ==
  AddGiven(<<(<<"name", Str(ToStr(body.name))>>),
             (<<"txamt", Str(ToStr(body.txamt))>>),
             (<<"txcurrcd", Str(ToStr(body.txcurrcd))>>)>>,
           body, <<"type", "description", "interval", "interval_count", "usage_type">>)

ProductCreateBegin(request, envKey) ==
  LET parsed == RequestJson(request)
  IN IF parsed.threw THEN Returned(<<>>, RouteCatch(parsed))
     ELSE
       LET body == parsed.value
       IN IF ProductMissingRequired(body)
          THEN Returned(<<>>,
                 Reply(400, [success |-> FALSE,
                             error |-> "Missing required fields: name, txamt, txcurrcd, appcode"]))
          ELSE
            LET requestParams == ProductParams(body)
                Signed(run) ==
                  IF run.ret.success # TRUE
                  THEN Returned(<<run>>,
                         Reply(500, [success |-> FALSE,
                                     error |-> "Product creation signature generation failed: "
                                               \o run.ret.error]))
                  ELSE Suspended(<<run>>, requestParams,
                                 Fetch("/product/v1/create", run.ret, FormOf(requestParams)))
            IN Signed(generateQFPaySignature(Obj(requestParams), body.appcode, Str("MD5"),
                                             Or(body.secretKey, Null), envKey))

\* the answer of a route when the gateway's status is not 2xx
GatewayStatusReply(what, resp, responseData) ==
  Reply(resp.status, [success |-> FALSE,
                      error |-> "QFPay " \o what \o " API error: " \o StatusLine(resp),
                      details |-> responseData])

\* the answer of a route when the gateway's code is not "0000"
GatewayCodeReply(what, responseData) ==
  Reply(400, [success |-> FALSE,
              error |-> "QFPay " \o what \o " error: " \o CodeAndMessage(responseData),
              details |-> responseData])

ProductCreateMap(requestParams, resp) ==
  IF resp.kind = "networkError" THEN Throw("fetch failed")
  ELSE LET parsed == ResponseJson(resp)
       IN IF parsed.threw THEN parsed
          ELSE LET responseData == parsed.value
               IN IF ~IsOk(resp.status)
                  THEN Normal(GatewayStatusReply("Product", resp, responseData))
                  ELSE IF IsNullish(responseData)
                  THEN ReadOfNullish(responseData, "respcd")
                  ELSE IF NotSuccessCode(responseData)
                  THEN Normal(GatewayCodeReply("Product", responseData))
                  ELSE IF IsNullish(responseData.data)
                  THEN ReadOfNullish(responseData.data, "product_id")
                  ELSE Normal(Reply(200,
                         [success |-> TRUE,
                          product |->
                            [product_id |-> responseData.data.product_id,
                             name |-> Get(requestParams, "name"),
                             type |-> Or(Get(requestParams, "type"), Str("onetime")),
                             txamt |-> ParseInt(Get(requestParams, "txamt")),
                             txcurrcd |-> Get(requestParams, "txcurrcd"),
                             description |-> Or(Get(requestParams, "description"), Null),
                             interval |-> Or(Get(requestParams, "interval"), Null),
                             interval_count |->
                               IF Truthy(Get(requestParams, "interval_count"))
                               THEN ParseInt(Get(requestParams, "interval_count"))
                               ELSE Null,
                             usage_type |-> Or(Get(requestParams, "usage_type"), Str("licensed")),
                             created_at |-> responseData.sysdtm,
                             raw_response |-> responseData]]))

ProductCreateSettle(requestParams, resp) == RouteCatch(ProductCreateMap(requestParams, resp))

-----------------------------------------------------------------------------
(* POST /api/qfpay/subscription/query *)

\* requestParams with page and page_size never copied
QueryParamsWithoutPaging(body) ==
  AddGiven(<<>>, body, <<"subscription_id", "customer_id", "state">>)

QueryParams(body) ==
  AddGiven(<<>>, body, <<"page", "page_size", "subscription_id", "customer_id", "state">>)

SubscriptionQueryBegin(request, envKey) ==
  LET parsed == RequestJson(request)
  IN IF parsed.threw THEN Returned(<<>>, RouteCatch(parsed))
     ELSE
       LET body == parsed.value
       IN IF ~Truthy(body.appcode)
          THEN Returned(<<>>,
                 Reply(400, [success |-> FALSE, error |-> "Missing required field: appcode"]))
          ELSE
            LET requestParams == QueryParams(body)
                Signed(run) ==
                  IF run.ret.success # TRUE
                  THEN Returned(<<run>>,
                         Reply(500, [success |-> FALSE,
                                     error |-> "Subscription query signature generation failed: "
                                               \o run.ret.error]))
                  ELSE Suspended(<<run>>, requestParams,
                                 Fetch("/subscription/v1/query", run.ret, FormOf(requestParams)))
            IN Signed(generateQFPaySignature(Obj(requestParams), body.appcode, Str("MD5"),
                                             Or(body.secretKey, Null), envKey))

SubscriptionQueryMap(requestParams, resp) ==
  IF resp.kind = "networkError" THEN Throw("fetch failed")
  ELSE LET parsed == ResponseJson(resp)
       IN IF parsed.threw THEN parsed
          ELSE LET responseData == parsed.value
               IN IF ~IsOk(resp.status)
                  THEN Normal(GatewayStatusReply("Subscription Query", resp, responseData))
                  ELSE IF IsNullish(responseData)
                  THEN ReadOfNullish(responseData, "respcd")
                  ELSE IF NotSuccessCode(responseData)
                  THEN Normal(GatewayCodeReply("Subscription Query", responseData))
                  ELSE Normal(Reply(200,
                         [success |-> TRUE,
                          result |->
                            [subscriptions |-> Or(responseData.data, Arr(<<>>)),
                             total_count |-> Or(responseData.total_count, Num(0)),
                             page |-> ParseInt(Or(Get(requestParams, "page"), Str("1"))),
                             page_size |-> ParseInt(Or(Get(requestParams, "page_size"), Str("10"))),
                             query_params |-> requestParams,
                             raw_response |-> responseData]]))

SubscriptionQuerySettle(requestParams, resp) ==
  RouteCatch(SubscriptionQueryMap(requestParams, resp))

-----------------------------------------------------------------------------
(* POST /api/qfpay/subscription/create *)

\* if (!customer_id || !token_id || !products || !appcode)
SubscriptionMissingRequired(body) ==
  ~Truthy(body.customer_id) \/ ~Truthy(body.token_id) \/ ~Truthy(body.products)
    \/ ~Truthy(body.appcode)

\* if (!Array.isArray(products)), the test of the length left out
ProductsNotAListOnly(products) == products.t # "array"

\* if (!Array.isArray(products) || products.length === 0)
ProductsNotANonEmptyList(products) == products.t # "array" \/ Len(products.v) = 0

\* if (!product.product_id || typeof product.quantity !== 'number')
ProductEntryMalformed(product) ==
  ~Truthy(Get(product.v, "product_id"))
    \/ TypeOf(Get(product.v, "quantity")) # "number"

\* for (const product of products): the first entry that stops the loop, 0 if none
FirstBadEntry(products) ==
  IF \E i \in 1..Len(products.v) :
       IsNullish(products.v[i]) \/ ProductEntryMalformed(products.v[i])
  THEN CHOOSE i \in 1..Len(products.v) :
         /\ IsNullish(products.v[i]) \/ ProductEntryMalformed(products.v[i])
         /\ \A j \in 1..(i - 1) :
              ~(IsNullish(products.v[j]) \/ ProductEntryMalformed(products.v[j]))
  ELSE 0

\* requestParams: customer_id, token_id, products, then the options given
SubscriptionRequestParams(body) ==
  LET base == <<(<<"customer_id", Str(ToStr(body.customer_id))>>),
                (<<"token_id", Str(ToStr(body.token_id))>>),
                (<<"products", body.products>>)>>
      withCycles == IF Truthy(body.total_billing_cycles)
                    THEN Put(base, "total_billing_cycles",
                             ParseInt(Str(ToStr(body.total_billing_cycles))))
                    ELSE base
  IN IF Truthy(body.start_time)
     THEN Put(withCycles, "start_time", Str(ToStr(body.start_time)))
     ELSE withCycles

\* signatureParams: the same fields, products as a JSON string
SubscriptionSignatureParams(requestParams) ==
  LET base == <<(<<"customer_id", Get(requestParams, "customer_id")>>),
                (<<"token_id", Get(requestParams, "token_id")>>),
                (<<"products", Str(JsonStringify(Get(requestParams, "products")))>>)>>
      withCycles == IF Truthy(Get(requestParams, "total_billing_cycles"))
                    THEN Put(base, "total_billing_cycles",
                             Str(ToStr(Get(requestParams, "total_billing_cycles"))))
                    ELSE base
  IN IF Truthy(Get(requestParams, "start_time"))
     THEN Put(withCycles, "start_time", Get(requestParams, "start_time"))
     ELSE withCycles

\* formData with the two optional fields never appended
SubscriptionFormWithoutOptions(requestParams) ==
  <<(<<"customer_id", ToStr(Get(requestParams, "customer_id"))>>),
    (<<"token_id", ToStr(Get(requestParams, "token_id"))>>),
    (<<"products", JsonStringify(Get(requestParams, "products"))>>)>>

\* formData: appended field by field
SubscriptionForm(requestParams) ==
  LET base == <<(<<"customer_id", ToStr(Get(requestParams, "customer_id"))>>),
                (<<"token_id", ToStr(Get(requestParams, "token_id"))>>),
                (<<"products", JsonStringify(Get(requestParams, "products"))>>)>>
      withCycles == IF Truthy(Get(requestParams, "total_billing_cycles"))
                    THEN Append(base, <<"total_billing_cycles",
                                        ToStr(Get(requestParams, "total_billing_cycles"))>>)
                    ELSE base
  IN IF Truthy(Get(requestParams, "start_time"))
     THEN Append(withCycles, <<"start_time", ToStr(Get(requestParams, "start_time"))>>)
     ELSE withCycles

SubscriptionCreateBegin(request, envKey) ==
  LET parsed == RequestJson(request)
  IN IF parsed.threw THEN Returned(<<>>, RouteCatch(parsed))
     ELSE
       LET body == parsed.value
       IN IF SubscriptionMissingRequired(body)
          THEN Returned(<<>>,
                 Reply(400, [success |-> FALSE,
                             error |-> "Missing required fields: customer_id, token_id, products, appcode"]))
          ELSE IF ProductsNotANonEmptyList(body.products)
          THEN Returned(<<>>,
                 Reply(400, [success |-> FALSE,
                             error |-> "Products must be a non-empty array"]))
          ELSE IF FirstBadEntry(body.products) # 0
          THEN Returned(<<>>,
                 LET product == body.products.v[FirstBadEntry(body.products)]
                 IN IF IsNullish(product)
                    THEN RouteCatch(ReadOfNullish(product, "product_id"))
                    ELSE Reply(400, [success |-> FALSE,
                                     error |-> "Each product must have product_id (string) and quantity (number)"]))
          ELSE
            LET requestParams == SubscriptionRequestParams(body)
                signatureParams == SubscriptionSignatureParams(requestParams)
                Signed(run) ==
                  IF run.ret.success # TRUE
                  THEN Returned(<<run>>,
                         Reply(500, [success |-> FALSE,
                                     error |-> "Subscription creation signature generation failed: "
                                               \o run.ret.error]))
                  ELSE Suspended(<<run>>, requestParams,
                                 Fetch("/subscription/v1/create", run.ret,
                                       SubscriptionForm(requestParams)))
            IN Signed(generateQFPaySignature(Obj(signatureParams), body.appcode, Str("MD5"),
                                             Or(body.secretKey, Null), envKey))

SubscriptionCreateMap(requestParams, resp) ==
  IF resp.kind = "networkError" THEN Throw("fetch failed")
  ELSE LET parsed == ResponseJson(resp)
       IN IF parsed.threw THEN parsed
          ELSE LET responseData == parsed.value
               IN IF ~IsOk(resp.status)
                  THEN Normal(GatewayStatusReply("Subscription", resp, responseData))
                  ELSE IF IsNullish(responseData)
                  THEN ReadOfNullish(responseData, "respcd")
                  ELSE IF NotSuccessCode(responseData)
                  THEN Normal(GatewayCodeReply("Subscription", responseData))
                  ELSE Normal(Reply(200,
                         [success |-> TRUE,
                          subscription |->
                            [subscription_id |->
                               IF IsNullish(responseData.data)
                               THEN responseData.subscription_id
                               ELSE Or(responseData.data.subscription_id,
                                       responseData.subscription_id),
                             customer_id |-> Get(requestParams, "customer_id"),
                             token_id |-> Get(requestParams, "token_id"),
                             products |-> Get(requestParams, "products"),
                             total_billing_cycles |->
                               Or(Get(requestParams, "total_billing_cycles"), Null),
                             start_time |-> Or(Get(requestParams, "start_time"), Null),
                             state |->
                               IF IsNullish(responseData.data)
                               THEN Or(responseData.state, Str("ACTIVE"))
                               ELSE Or(Or(responseData.data.state, responseData.state),
                                       Str("ACTIVE")),
                             created_at |-> responseData.sysdtm,
                             raw_response |-> responseData]]))

SubscriptionCreateSettle(requestParams, resp) ==
  RouteCatch(SubscriptionCreateMap(requestParams, resp))

-----------------------------------------------------------------------------
(* Inputs *)

\* keys a caller may put in a parameter set, two of them array indices
ParamKeys == {"a", "b", "10", "9"}

\* values a caller may give a parameter
ParamValues == {Str("1"), Str("2"), Str("x&y=z"), Num(500)}

\* the sequences of at most n distinct keys: the orders a literal can list them in
RECURSIVE KeyOrders(_)
KeyOrders(n) ==
  IF n = 0 THEN {<<>>}
  ELSE LET shorter == KeyOrders(n - 1)
           longer == {qk \in shorter \X ParamKeys :
                        /\ Len(qk[1]) = n - 1
                        /\ \A i \in 1..Len(qk[1]) : qk[1][i] # qk[2]}
       IN shorter \cup {Append(qk[1], qk[2]) : qk \in longer}

\* the object a literal listing keys in this order with these values creates
RECURSIVE Literal(_, _)
Literal(keys, valueOf) ==
  IF Len(keys) = 0 THEN <<>>
  ELSE Put(Literal(SubSeq(keys, 1, Len(keys) - 1), valueOf),
           keys[Len(keys)], valueOf[keys[Len(keys)]])

Algorithms ==
  {Undefined, Null, Str("MD5"), Str("md5"), Str("SHA256"), Str("sha256"), Str("sha1")}

ClientKeys == {Null, Str(""), Str("k")}

EnvKeys == {Undefined, Str("envkey")}

AppCodes == {Undefined, Str("APP")}

\* the HTTP statuses the gateway answers with
Statuses == {200, 201, 404, 500}

\* the bodies the gateway answers with: not JSON, JSON null, or an object
Bodies ==
  {NotJson, Json(Null)}
    \cup {Json(GatewayJson(respcd, respmsg, payload)) :
            respcd \in {Undefined, Str("0000"), Str("1001")},
            respmsg \in {Undefined, Str("Invalid signature")},
            payload \in BOOLEAN}

Responses == {NetworkError} \cup {Answer(status, body) : status \in Statuses, body \in Bodies}

SecretKeys == {Null, Str("k"), Obj(<<(<<"toString", Num(1)>>)>>)}

\* the last with a property the gateway has no field for
CustomerDatas ==
  {Null,
   [t |-> "object", name |-> Undefined, phone |-> Undefined, email |-> Undefined],
   [t |-> "object", name |-> Str("Ann Lee"), phone |-> Undefined,
    email |-> Str("ann@example.com")],
   [t |-> "object", name |-> Str("Ann Lee"), phone |-> Str("5550100"),
    email |-> Str("ann@example.com"), address |-> Str("1 Main St")]}

\* what Date.now() may give: instants of January 1970, in milliseconds
Clocks == {0, 90061001}

\* what Math.random().toString(36).substr(2, 6) may give
Randoms == {"k3j9zq"}

Amounts == {Undefined, Num(500)}

Currencies == {Undefined, Str("HKD"), Str("USD")}

CustomerIds == {Null, Str("  "), Str(" cust_1 ")}

TokenExpiries == {Null, Str(" 2025-12-31 23:59:59 ")}

\* a request body that is JSON: an object with these properties
Body(fields) == Json([t |-> "object"] @@ fields)

\* the optional properties of a product request; note is a property the route
\* does not know
ProductOptions ==
  {[type |-> Undefined, description |-> Undefined, interval |-> Undefined,
    interval_count |-> Undefined, usage_type |-> Undefined, note |-> Undefined],
   [type |-> Str("recurring"), description |-> Str("Basic plan, monthly"),
    interval |-> Str("monthly"), interval_count |-> Num(1), usage_type |-> Undefined,
    note |-> Str("vip")]}

ProductRequests ==
  {NotJson, Json(Null)}
    \cup {Body([name |-> name, txamt |-> txamt, txcurrcd |-> txcurrcd,
                appcode |-> appcode, secretKey |-> secretKey] @@ options) :
            name \in {Undefined, Str("Basic Monthly Plan")},
            txamt \in {Undefined, Num(999)},
            txcurrcd \in {Undefined, Str("HKD")},
            appcode \in AppCodes,
            secretKey \in {Undefined, Str("k")},
            options \in ProductOptions}

QueryRequests ==
  {NotJson, Json(Null)}
    \cup {Body([appcode |-> appcode, secretKey |-> secretKey, page |-> page,
                page_size |-> pageSize, subscription_id |-> Undefined,
                customer_id |-> customerId, state |-> Undefined,
                note |-> Str("vip")]) :
            appcode \in AppCodes,
            secretKey \in {Undefined, Str("k")},
            page \in {Undefined, Num(0), Num(2)},
            pageSize \in {Undefined, Num(0), Num(50)},
            customerId \in {Undefined, Str("cust_1")}}
    \cup {Body([appcode |-> Str("APP"), secretKey |-> Obj(<<(<<"toString", Num(1)>>)>>),
                page |-> Num(2), page_size |-> Undefined, subscription_id |-> Undefined,
                customer_id |-> Undefined, state |-> Undefined,
                note |-> Str("vip")])}

\* the entries a products list may hold: well-formed, without product_id,
\* with a quantity that is a string, and null
ProductEntries ==
  {Obj(<<(<<"product_id", Str("prod_1")>>), (<<"quantity", Num(1)>>)>>),
   Obj(<<(<<"quantity", Num(1)>>)>>),
   Obj(<<(<<"product_id", Str("prod_1")>>), (<<"quantity", Str("1")>>)>>),
   Null}

\* the lists of at most n entries
RECURSIVE ProductLists(_)
ProductLists(n) ==
  IF n = 0 THEN {<<>>}
  ELSE LET shorter == ProductLists(n - 1)
       IN shorter \cup {Append(list, entry) :
                          list \in {l \in shorter : Len(l) = n - 1},
                          entry \in ProductEntries}

ProductsValues ==
  {Undefined, Str("prod_1")} \cup {Arr(list) : list \in ProductLists(MaxProducts)}

SubscriptionOptions ==
  {[total_billing_cycles |-> Undefined, start_time |-> Undefined, note |-> Undefined],
   [total_billing_cycles |-> Num(12), start_time |-> Str("2025-01-01 00:00:00"),
    note |-> Str("vip")]}

SubscriptionRequests ==
  {NotJson, Json(Null)}
    \cup {Body([customer_id |-> customerId, token_id |-> tokenId, products |-> products,
                appcode |-> appcode, secretKey |-> secretKey] @@ options) :
            customerId \in {Undefined, Str("cust_1")},
            tokenId \in {Undefined, Str("tok_1")},
            products \in ProductsValues,
            appcode \in AppCodes,
            secretKey \in {Undefined, Str("k")},
            options \in SubscriptionOptions}

-----------------------------------------------------------------------------
(* The state machine *)

NoCall == [op |-> "none"]
NoResponse == [kind |-> "none"]
NoResult == [success |-> "none"]
NoRequest == [url |-> "none"]

\* the local variables of an invocation before it has assigned any
NoLocals ==
  [done |-> FALSE, ret |-> NoResult, runs |-> <<>>, requestParams |-> <<>>,
   request |-> NoRequest]

\* an activation that runs nothing
IdleFrame ==
  [pc |-> "idle", call |-> NoCall, locals |-> NoLocals, requests |-> <<>>,
   response |-> NoResponse, result |-> NoResult]

Slots == 1..MaxInFlight

\* addLog(message, type): the entry goes in front of the ones logged before
\* (of which the oldest, beyond MaxLogs, are not kept track of)
addLog(logs, message, type) ==
  SubSeq(<<[message |-> message, type |-> type]>> \o logs, 1,
         IF Len(logs) < MaxLogs THEN Len(logs) + 1 ELSE MaxLogs)

\* the handlers of the pages that await a call, and the loop of createSampleProducts
Handlers ==
  {"createCustomerRecord", "setupPaymentIntent", "processPayment", "createSampleProducts"}

\* the state of the page once mounted: every useState at its initial value and
\* the mount effect's loadConfiguration run with nothing saved in the browser
Mounted(page, sdkLoaded) ==
  [page |-> page, sdkLoaded |-> sdkLoaded,
   config |-> [appcode |-> "", secretKey |-> "", customerId |-> "",
               amount |-> 500, currency |-> "HKD"],
   logs |-> addLog(<<>>, "No saved configuration found", "info"),
   qfpay |-> Null, customer |-> Null, paymentIntentId |-> Null,
   isLoading |-> FALSE, error |-> Null,
   products |-> <<>>]

\* no handler suspended
NoActivation == [handler |-> "none"]

Init ==
  /\ ui = Mounted("minimal", TRUE)
  /\ pending = [h \in Handlers |-> NoActivation]
  /\ inflight = [s \in Slots |-> IdleFrame]
  /\ pc = "idle"
  /\ call = NoCall
  /\ env \in EnvKeys
  /\ sigCalls = <<>>
  /\ requests = <<>>
  /\ response = NoResponse
  /\ result = NoResult

\* a caller (the page, or any client of the server action) signs a parameter set
SignatureCall ==
  /\ pc = "idle"
  /\ \E keys \in KeyOrders(MaxKeys), algorithm \in Algorithms, clientKey \in ClientKeys,
        isNull \in BOOLEAN :
       \E valueOf \in [{keys[i] : i \in 1..Len(keys)} -> ParamValues] :
         LET params == IF isNull THEN Null ELSE Obj(Literal(keys, valueOf))
             run == generateQFPaySignature(params, Str("APP"), algorithm, clientKey, env)
         IN /\ isNull => keys = <<>>
            /\ call' = [op |-> "generateQFPaySignature", literal |-> keys,
                        params |-> params, algorithm |-> algorithm,
                        clientKey |-> clientKey]
            /\ sigCalls' = Append(sigCalls, run)
            /\ result' = run.ret
            /\ pc' = "returned"
  /\ UNCHANGED <<env, requests, response, inflight, pageVars>>

\* the first step with the request sent before the signing result is examined
BeginSendingUnsigned(invocation, begun) ==
  /\ pc = "idle"
  /\ call' = invocation
  /\ sigCalls' = begun.runs
  /\ IF begun.done
     THEN /\ pc' = "returned"
          /\ result' = begun.ret
          /\ requests' = IF begun.runs = <<>> THEN <<>> ELSE <<NoRequest>>
     ELSE /\ pc' = "awaitingGateway"
          /\ result' = NoResult
          /\ requests' = <<begun.request>>
  /\ UNCHANGED <<env, response, inflight, pageVars>>

\* an operation takes its first step: it returns at once or suspends at fetch
Begin(invocation, begun) ==
  /\ pc = "idle"
  /\ call' = invocation
  /\ sigCalls' = begun.runs
  /\ IF begun.done
     THEN /\ pc' = "returned"
          /\ result' = begun.ret
          /\ requests' = <<>>
     ELSE /\ pc' = "awaitingGateway"
          /\ result' = NoResult
          /\ requests' = <<begun.request>>
  /\ UNCHANGED <<env, response, inflight, pageVars>>

\* the continuation after await fetch never taken up
AwaitingNever(op) == FALSE

\* the gateway answers (or the connection fails) and the operation runs to its end
Awaiting(op) == pc = "awaitingGateway" /\ call.op = op

\* the operation sending its request once more before it returns a failure
SettleRetrying(resp, ret) ==
  /\ response' = resp
  /\ result' = ret
  /\ pc' = "returned"
  /\ requests' = IF ret.success = TRUE THEN requests ELSE Append(requests, requests[1])
  /\ UNCHANGED <<call, env, sigCalls, inflight, pageVars>>

Settle(resp, ret) ==
  /\ response' = resp
  /\ result' = ret
  /\ pc' = "returned"
  /\ UNCHANGED <<call, env, sigCalls, requests, inflight, pageVars>>

CreateCustomerCall ==
  \E customerData \in CustomerDatas, appcode \in AppCodes, secretKey \in SecretKeys :
    LET Invoke(begun) ==
          Begin([op |-> "createCustomer", customerData |-> customerData,
                 appcode |-> appcode, secretKey |-> secretKey,
                 requestParams |-> IF begun.done THEN <<>> ELSE begun.requestParams],
                begun)
    IN Invoke(CreateCustomerBegin(customerData, appcode, secretKey, env))

CreateCustomerSettled ==
  /\ Awaiting("createCustomer")
  /\ \E resp \in Responses :
       Settle(resp, CreateCustomerSettle(call.requestParams, resp))

CreatePaymentIntentCall ==
  \E amount \in Amounts, currency \in Currencies, secretKey \in SecretKeys,
     customerId \in CustomerIds, tokenExpiry \in TokenExpiries,
     now \in Clocks, random \in Randoms :
    LET Invoke(begun) ==
          Begin([op |-> "createPaymentIntent", amount |-> amount, currency |-> currency,
                 appcode |-> Str("APP"), secretKey |-> secretKey, customerId |-> customerId,
                 tokenExpiry |-> tokenExpiry, now |-> now,
                 requestParams |-> IF begun.done THEN <<>> ELSE begun.requestParams],
                begun)
    IN Invoke(CreatePaymentIntentBegin(amount, currency, Str("APP"), secretKey,
              customerId, tokenExpiry, env, now, random))

CreatePaymentIntentSettled ==
  /\ Awaiting("createPaymentIntent")
  /\ \E resp \in Responses :
       Settle(resp, CreatePaymentIntentSettle(Get(call.requestParams, "txcurrcd"), resp))

CreateTokenIntentCall ==
  \E customerId \in {Null, Str("cust_1")}, appcode \in AppCodes, now \in Clocks :
    LET Invoke(begun) ==
          Begin([op |-> "createTokenIntent", customerId |-> customerId,
                 appcode |-> appcode, now |-> now,
                 requestParams |-> IF begun.done THEN <<>> ELSE begun.requestParams],
                begun)
    IN Invoke(CreateTokenIntentBegin(customerId, appcode, env, now))

CreateTokenIntentSettled ==
  /\ Awaiting("createTokenIntent")
  /\ \E resp \in Responses, now \in Clocks :
       /\ now >= call.now
       /\ Settle(resp, CreateTokenIntentSettle(call.requestParams, call.customerId, resp, now))

ProductCreateCall ==
  \E request \in ProductRequests :
    LET Invoke(begun) ==
          Begin([op |-> "productCreate", request |-> request,
                 requestParams |-> IF begun.done THEN <<>> ELSE begun.requestParams],
                begun)
    IN Invoke(ProductCreateBegin(request, env))

ProductCreateSettled ==
  /\ Awaiting("productCreate")
  /\ \E resp \in Responses :
       Settle(resp, ProductCreateSettle(call.requestParams, resp))

SubscriptionQueryCall ==
  \E request \in QueryRequests :
    LET Invoke(begun) ==
          Begin([op |-> "subscriptionQuery", request |-> request,
                 requestParams |-> IF begun.done THEN <<>> ELSE begun.requestParams],
                begun)
    IN Invoke(SubscriptionQueryBegin(request, env))

SubscriptionQuerySettled ==
  /\ Awaiting("subscriptionQuery")
  /\ \E resp \in Responses :
       Settle(resp, SubscriptionQuerySettle(call.requestParams, resp))

SubscriptionCreateCall ==
  \E request \in SubscriptionRequests :
    LET Invoke(begun) ==
          Begin([op |-> "subscriptionCreate", request |-> request,
                 requestParams |-> IF begun.done THEN <<>> ELSE begun.requestParams],
                begun)
    IN Invoke(SubscriptionCreateBegin(request, env))

SubscriptionCreateSettled ==
  /\ Awaiting("subscriptionCreate")
  /\ \E resp \in Responses :
       Settle(resp, SubscriptionCreateSettle(call.requestParams, resp))

\* the caller takes the result; the server keeps nothing of the invocation
Return ==
  /\ pc = "returned"
  /\ pc' = "idle"
  /\ call' = NoCall
  /\ sigCalls' = <<>>
  /\ requests' = <<>>
  /\ response' = NoResponse
  /\ result' = NoResult
  /\ UNCHANGED <<env, inflight, pageVars>>

Next ==
  \/ SignatureCall
  \/ CreateCustomerCall
  \/ CreateCustomerSettled
  \/ CreatePaymentIntentCall
  \/ CreatePaymentIntentSettled
  \/ CreateTokenIntentCall
  \/ CreateTokenIntentSettled
  \/ ProductCreateCall
  \/ ProductCreateSettled
  \/ SubscriptionCreateCall
  \/ SubscriptionCreateSettled
  \/ SubscriptionQueryCall
  \/ SubscriptionQuerySettled
  \/ Return

Spec == Init /\ [][Next]_vars

\* the promise of fetch settles, with a response or with a transport error, and
\* the event loop then runs the continuation of the operation that awaits it
GatewaySettles ==
  /\ WF_vars(CreateCustomerSettled)
  /\ WF_vars(CreatePaymentIntentSettled)
  /\ WF_vars(CreateTokenIntentSettled)
  /\ WF_vars(ProductCreateSettled)
  /\ WF_vars(SubscriptionCreateSettled)
  /\ WF_vars(SubscriptionQuerySettled)

LiveSpec == Init /\ [][Next]_vars /\ GatewaySettles

-----------------------------------------------------------------------------
(* Invocations running side by side: an async function runs from one await  *)
(* to the next without interruption, and others run in between              *)

\* the invocations made side by side: each operation, with arguments that differ
ConcurrentCalls ==
  {[op |-> "createCustomer",
    customerData |-> [t |-> "object", name |-> Undefined, phone |-> Undefined,
                      email |-> Undefined],
    appcode |-> Str("APP"), secretKey |-> Null],
   [op |-> "createCustomer",
    customerData |-> [t |-> "object", name |-> Str("Ann Lee"), phone |-> Str("5550100"),
                      email |-> Str("ann@example.com")],
    appcode |-> Str("APP"), secretKey |-> Str("k")],
   [op |-> "createPaymentIntent", amount |-> Num(500), currency |-> Undefined,
    appcode |-> Str("APP"), secretKey |-> Null, customerId |-> Null,
    tokenExpiry |-> Null, now |-> 0, random |-> "k3j9zq"],
   [op |-> "createPaymentIntent", amount |-> Num(500), currency |-> Str("USD"),
    appcode |-> Str("APP"), secretKey |-> Str("k"), customerId |-> Str(" cust_1 "),
    tokenExpiry |-> Null, now |-> 90061001, random |-> "k3j9zq"],
   [op |-> "createTokenIntent", customerId |-> Str("cust_1"), appcode |-> Str("APP"),
    now |-> 0],
   [op |-> "productCreate",
    request |-> Body([name |-> Str("Basic Monthly Plan"), txamt |-> Num(999),
                      txcurrcd |-> Str("HKD"), appcode |-> Str("APP"),
                      secretKey |-> Str("k"), type |-> Undefined,
                      description |-> Undefined, interval |-> Undefined,
                      interval_count |-> Undefined, usage_type |-> Undefined,
                      note |-> Undefined])],
   [op |-> "productCreate",
    request |-> Body([name |-> Undefined, txamt |-> Num(999),
                      txcurrcd |-> Str("HKD"), appcode |-> Str("APP"),
                      secretKey |-> Undefined, type |-> Undefined,
                      description |-> Undefined, interval |-> Undefined,
                      interval_count |-> Undefined, usage_type |-> Undefined,
                      note |-> Undefined])],
   [op |-> "subscriptionQuery",
    request |-> Body([appcode |-> Str("APP"), secretKey |-> Undefined, page |-> Num(2),
                      page_size |-> Undefined, subscription_id |-> Undefined,
                      customer_id |-> Str("cust_1"), state |-> Undefined,
                      note |-> Undefined])],
   [op |-> "subscriptionCreate",
    request |-> Body([customer_id |-> Str("cust_1"), token_id |-> Str("tok_1"),
                      products |-> Arr(<<Obj(<<(<<"product_id", Str("prod_1")>>),
                                               (<<"quantity", Num(1)>>)>>)>>),
                      appcode |-> Str("APP"), secretKey |-> Str("k"),
                      total_billing_cycles |-> Num(12), start_time |-> Undefined,
                      note |-> Undefined])]}

\* the answers given to them
ConcurrentResponses ==
  {NetworkError,
   Answer(200, Json(GatewayJson(Str("0000"), Undefined, TRUE))),
   Answer(200, Json(GatewayJson(Str("1001"), Str("Invalid signature"), FALSE)))}

\* the operation invoked, up to its fetch
BeginOf(c, envKey) ==
  CASE c.op = "createCustomer" ->
         CreateCustomerBegin(c.customerData, c.appcode, c.secretKey, envKey)
    [] c.op = "createPaymentIntent" ->
         CreatePaymentIntentBegin(c.amount, c.currency, c.appcode, c.secretKey,
                                  c.customerId, c.tokenExpiry, envKey, c.now, c.random)
    [] c.op = "createTokenIntent" ->
         CreateTokenIntentBegin(c.customerId, c.appcode, envKey, c.now)
    [] c.op = "productCreate" -> ProductCreateBegin(c.request, envKey)
    [] c.op = "subscriptionQuery" -> SubscriptionQueryBegin(c.request, envKey)
    [] OTHER -> SubscriptionCreateBegin(c.request, envKey)

\* the operation invoked, from the answer on
SettleOf(c, requestParams, resp) ==
  CASE c.op = "createCustomer" -> CreateCustomerSettle(requestParams, resp)
    [] c.op = "createPaymentIntent" ->
         CreatePaymentIntentSettle(
           IF c.currency.t = "undefined" THEN Str("HKD") ELSE c.currency, resp)
    [] c.op = "createTokenIntent" ->
         CreateTokenIntentSettle(requestParams, c.customerId, resp, c.now)
    [] c.op = "productCreate" -> ProductCreateSettle(requestParams, resp)
    [] c.op = "subscriptionQuery" -> SubscriptionQuerySettle(requestParams, resp)
    [] OTHER -> SubscriptionCreateSettle(requestParams, resp)

\* requestParams, signatureResult and formData kept in variables of the module,
\* one set for all invocations
FrameShared(s) == 1

\* requestParams, signatureResult and formData are const declarations inside
\* the function: invocation s reads the ones of its own activation
Frame(s) == s

\* from the call to the first await: the arguments are checked, the parameters
\* built and generateQFPaySignature run; a check that fails returns at once
ConcurrentBegin(s) ==
  /\ inflight[s].pc = "idle"
  /\ \E c \in ConcurrentCalls :
       LET Activate(begun) ==
             inflight' =
               [inflight EXCEPT ![s] =
                  IF begun.done /\ begun.runs = <<>>
                  THEN [IdleFrame EXCEPT !.pc = "returned", !.call = c, !.result = begun.ret]
                  ELSE [IdleFrame EXCEPT
                          !.pc = "awaitingSignature", !.call = c,
                          !.locals = [done |-> begun.done,
                                      ret |-> IF begun.done THEN begun.ret ELSE NoResult,
                                      runs |-> begun.runs,
                                      requestParams |-> IF begun.done THEN <<>>
                                                        ELSE begun.requestParams,
                                      request |-> IF begun.done THEN NoRequest
                                                  ELSE begun.request]]]
       IN Activate(BeginOf(c, env))
  /\ UNCHANGED <<pc, call, env, sigCalls, requests, response, result, pageVars>>

\* from the signature to the fetch: the form is filled and the request sent
ConcurrentSend(s) ==
  /\ inflight[s].pc = "awaitingSignature"
  /\ LET locals == inflight[Frame(s)].locals
     IN inflight' =
          [inflight EXCEPT ![s] =
             IF locals.done
             THEN [@ EXCEPT !.pc = "returned", !.result = locals.ret]
             ELSE [@ EXCEPT !.pc = "awaitingGateway", !.requests = <<locals.request>>]]
  /\ UNCHANGED <<pc, call, env, sigCalls, requests, response, result, pageVars>>

\* from the answer to the return
ConcurrentSettle(s) ==
  /\ inflight[s].pc = "awaitingGateway"
  /\ \E resp \in ConcurrentResponses :
       inflight' =
         [inflight EXCEPT ![s] =
            [@ EXCEPT !.pc = "returned", !.response = resp,
                      !.result = SettleOf(inflight[s].call,
                                          inflight[Frame(s)].locals.requestParams,
                                          resp)]]
  /\ UNCHANGED <<pc, call, env, sigCalls, requests, response, result, pageVars>>

\* the caller takes the result and the activation is gone
ConcurrentReturn(s) ==
  /\ inflight[s].pc = "returned"
  /\ inflight' = [inflight EXCEPT ![s] = IdleFrame]
  /\ UNCHANGED <<pc, call, env, sigCalls, requests, response, result, pageVars>>

ConcurrentNext ==
  \E s \in Slots :
    \/ ConcurrentBegin(s)
    \/ ConcurrentSend(s)
    \/ ConcurrentSettle(s)
    \/ ConcurrentReturn(s)

ConcurrentSpec == Init /\ [][ConcurrentNext]_vars

-----------------------------------------------------------------------------
(* The pages: React state, the handlers behind the buttons, and the handlers *)
(* suspended at an await.  A handler runs from one await to the next without *)
(* interruption, the state updates it made are rendered, and only then does  *)
(* the next click or continuation run.  A button that is disabled takes no   *)
(* click.                                                                    *)

\* the object window.QFpay.config(...) returns
QFpayInstance == [t |-> "object", v |-> <<>>]

\* what the awaited server action or route resolves with, the gateway answering resp
\* the call of the server made by the handler before its await: the request
\* travels and the route runs up to its own fetch
Requested(handler, config, c) ==
  [handler |-> handler, config |-> config, call |-> c, begun |-> BeginOf(c, env)]

\* what the awaited call resolves with, once the gateway has answered
ServerResult(activation, resp) ==
  IF activation.begun.done THEN activation.begun.ret
  ELSE SettleOf(activation.call, activation.begun.requestParams, resp)

\* the answers of the gateway to the page's calls: accepted, or refused
PageResponses == ConcurrentResponses \ {NetworkError}

\* the handler suspends at its await; an activation of it that is still
\* suspended keeps the handler from being started again
Suspend(handler, activation) ==
  /\ pending[handler] = NoActivation
  /\ pending' = [pending EXCEPT ![handler] = activation]

\* the awaited call settled and the handler ran to its end
Finish(handler) == pending' = [pending EXCEPT ![handler] = NoActivation]

\* setIsLoading(true); setError(null); addLog(message, 'info')
Started(state, message) ==
  [state EXCEPT !.isLoading = TRUE, !.error = Null,
                !.logs = addLog(@, message, "info")]

\* the catch block without the finally: isLoading stays as it was
CaughtNoFinally(state, what, message) ==
  [state EXCEPT !.error = Str(message),
                !.logs = addLog(@, what \o " failed: " \o message, "error")]

\* catch (error) { setError(message); addLog(what failed: message) } finally { setIsLoading(false) }
Caught(state, what, message) ==
  [state EXCEPT !.error = Str(message),
                !.logs = addLog(@, what \o " failed: " \o message, "error"),
                !.isLoading = FALSE]

\* a precondition of the handler does not hold: setError(message); return
Rejected(message) ==
  /\ ui' = [ui EXCEPT !.error = Str(message)]
  /\ UNCHANGED pending

\* n / 100 as a template literal prints it
Hundredth(n) ==
  IF n % 100 = 0 THEN Dec(n \div 100)
  ELSE IF n % 10 = 0 THEN Dec(n \div 100) \o "." \o Dec((n % 100) \div 10)
  ELSE Dec(n \div 100) \o "." \o Pad2(n % 100)

initializeQFPay ==
  /\ ui.qfpay = Null /\ ~ui.isLoading
  /\ IF ~ui.sdkLoaded
     THEN Rejected("QFPay SDK not loaded for qa environment. Please refresh the page.")
     ELSE /\ ui' = [ui EXCEPT
                      !.qfpay = QFpayInstance,
                      !.error = Null,
                      !.isLoading = FALSE,
                      !.logs = addLog(addLog(addLog(@,
                                 "Initializing QFPay with minimal config...", "info"),
                                 "QFPay instance created successfully", "success"),
                                 "QFPay methods: payment, element, confirmPayment", "info")]
          /\ UNCHANGED pending
  /\ UNCHANGED serverVars

createCustomerRecord ==
  /\ ui.customer = Null /\ ~ui.isLoading
  /\ IF Trim(ui.config.appcode) = ""
     THEN Rejected("APPCODE is required for customer creation")
     ELSE /\ ui' = Started(ui, "Creating customer record...")
          /\ Suspend("createCustomerRecord",
                     Requested("createCustomerRecord", ui.config,
                       [op |-> "createCustomer",
                        customerData |-> [t |-> "object", name |-> Str("Demo Customer"),
                                          phone |-> Str("1234567890"),
                                          email |-> Str("demo@example.com")],
                        appcode |-> Str(ui.config.appcode),
                        secretKey |-> Str(ui.config.secretKey)]))
  /\ UNCHANGED serverVars

createCustomerRecordSettled ==
  /\ pending["createCustomerRecord"].handler = "createCustomerRecord"
  /\ \E resp \in PageResponses :
       LET Resume(res) ==
             ui' = IF res.success # TRUE
                   THEN Caught(ui, "Customer creation", res.error)
                   ELSE [ui EXCEPT
                           !.customer = res.customer,
                           !.config = [@ EXCEPT !.customerId = ToStr(res.customer.customer_id)],
                           !.isLoading = FALSE,
                           !.logs = addLog(addLog(addLog(addLog(@,
                                      "Customer created: " \o ToStr(res.customer.customer_id),
                                      "success"),
                                      "Customer name: " \o ToStr(res.customer.name), "info"),
                                      "Customer email: " \o ToStr(res.customer.email), "info"),
                                      "Auto-copied customer ID to configuration field", "info")]
       IN Resume(ServerResult(pending["createCustomerRecord"], resp))
  /\ Finish("createCustomerRecord")
  /\ UNCHANGED serverVars

setupPaymentIntent ==
  /\ ui.qfpay # Null /\ ui.paymentIntentId = Null /\ ~ui.isLoading
  /\ IF ui.qfpay = Null
     THEN Rejected("QFPay not initialized")
     ELSE IF Trim(ui.config.appcode) = ""
     THEN Rejected("APPCODE is required")
     ELSE /\ ui' = Started(ui, "Creating payment intent via server...")
          /\ Suspend("setupPaymentIntent",
                     Requested("setupPaymentIntent", ui.config,
                       [op |-> "createPaymentIntent", amount |-> Num(ui.config.amount),
                        currency |-> Str(ui.config.currency),
                        appcode |-> Str(ui.config.appcode),
                        secretKey |-> Str(ui.config.secretKey),
                        customerId |-> Or(Str(ui.config.customerId), Null),
                        tokenExpiry |-> Str("2027-11-04 00:00:00"),
                        now |-> 0, random |-> "k3j9zq"]))
  /\ UNCHANGED serverVars

setupPaymentIntentSettled ==
  /\ pending["setupPaymentIntent"].handler = "setupPaymentIntent"
  /\ \E resp \in PageResponses, sdkThrows \in BOOLEAN :
       LET Resume(res) ==
             IF res.success # TRUE
             THEN /\ ~sdkThrows
                  /\ ui' = Caught(ui, "Payment intent setup", res.error)
             ELSE LET paymentIntent == res.paymentIntent
                      created ==
                        [ui EXCEPT
                           !.paymentIntentId = paymentIntent.payment_intent_id,
                           !.logs = addLog(addLog(addLog(@,
                                      "Payment intent created: "
                                        \o ToStr(paymentIntent.payment_intent_id), "success"),
                                      "Amount: " \o Hundredth(paymentIntent.amount.v) \o " "
                                        \o ToStr(paymentIntent.currency), "info"),
                                      "Expires: " \o ToStr(Or(paymentIntent.expires_at, Str("N/A"))),
                                      "info")]
                  IN ui' = IF sdkThrows
                           THEN \* qfpay.payment() throws
                                Caught(created, "Payment intent setup", "payment is not available")
                           ELSE [created EXCEPT
                                   !.isLoading = FALSE,
                                   !.logs = addLog(addLog(addLog(addLog(@,
                                              "Payment object initialized", "info"),
                                              "Payment parameters set", "info"),
                                              "Elements object created", "info"),
                                              "Payment card form generated with createEnhance",
                                              "success")]
       IN Resume(ServerResult(pending["setupPaymentIntent"], resp))
  /\ Finish("setupPaymentIntent")
  /\ UNCHANGED serverVars

processPayment ==
  /\ ui.paymentIntentId # Null /\ ~ui.isLoading
  /\ IF ui.qfpay = Null
     THEN Rejected("QFPay not initialized")
     ELSE /\ ui' = Started(ui, "Processing payment...")
          /\ Suspend("processPayment", [handler |-> "processPayment"])
  /\ UNCHANGED serverVars

\* qfpay.confirmPayment() resolves with the payment response or rejects
processPaymentSettled ==
  /\ pending["processPayment"].handler = "processPayment"
  /\ \E resolved \in BOOLEAN :
       ui' = IF resolved
             THEN [ui EXCEPT !.isLoading = FALSE,
                             !.logs = addLog(@, "Payment response: {\"status\":\"succeeded\"}",
                                             "success")]
             ELSE Caught(ui, "Payment processing", "Payment declined")
  /\ Finish("processPayment")
  /\ UNCHANGED serverVars

resetDemo ==
  /\ ~ui.isLoading
  /\ ui' = [ui EXCEPT !.qfpay = Null, !.customer = Null, !.paymentIntentId = Null,
                      !.isLoading = FALSE, !.error = Null,
                      !.logs = addLog(<<>>, "Demo reset - ready to start over", "info")]
  /\ UNCHANGED <<pending, serverVars>>

\* the Clear Logs button: setLogs([])
clearLogs ==
  /\ ui.logs # <<>>
  /\ ui' = [ui EXCEPT !.logs = <<>>]
  /\ UNCHANGED <<pending, serverVars>>

\* the APPCODE input: setConfig(prev => ({ ...prev, appcode: e.target.value }))
setAppcode ==
  /\ ~ui.isLoading
  /\ \E appcode \in {"", "APP"} :
       /\ appcode # ui.config.appcode
       /\ ui' = [ui EXCEPT !.config = [@ EXCEPT !.appcode = appcode]]
  /\ UNCHANGED <<pending, serverVars>>

\* const testProducts = [...] of createSampleProducts
testProducts ==
  <<[name |-> "Basic Monthly Plan", txamt |-> 999, interval |-> "monthly",
     description |-> "Basic subscription plan with monthly billing"],
    [name |-> "Premium Annual Plan", txamt |-> 9999, interval |-> "yearly",
     description |-> "Premium subscription plan with annual billing"]>>

\* createProduct(productData) up to its fetch
createProduct(state, config, index) ==
  IF config.appcode = ""
  THEN [state EXCEPT !.error = Str("APPCODE is required for product creation")]
  ELSE Started(state, "Creating product: " \o testProducts[index].name)

\* the body createProduct posts to /api/qfpay/product/create
ProductCall(config, index) ==
  [op |-> "productCreate",
   request |-> Body([name |-> Str(testProducts[index].name),
                     txamt |-> Num(testProducts[index].txamt),
                     txcurrcd |-> Str("HKD"),
                     appcode |-> Str(config.appcode),
                     secretKey |-> Str(config.secretKey),
                     type |-> Str("recurring"),
                     description |-> Str(testProducts[index].description),
                     interval |-> Str(testProducts[index].interval),
                     interval_count |-> Num(1),
                     usage_type |-> Undefined,
                     note |-> Undefined])]

\* the activation of createSampleProducts awaiting createProduct for a product
AwaitingProduct(config, index) ==
  [handler |-> "createProduct", config |-> config, index |-> index,
   call |-> ProductCall(config, index),
   begun |-> BeginOf(ProductCall(config, index), env)]

\* the loop of createSampleProducts entered: createProduct runs for the first product
createSampleProducts ==
  /\ ui.page = "recurring"
  /\ ~ui.isLoading /\ ui.config.appcode # ""
  /\ Len(ui.products) + Len(testProducts) <= MaxProducts
  /\ ui' = createProduct(ui, ui.config, 1)
  /\ Suspend("createSampleProducts", AwaitingProduct(ui.config, 1))
  /\ UNCHANGED serverVars

\* the route answered: createProduct runs to its end and the loop starts its pause
createProductSettled ==
  /\ pending["createSampleProducts"].handler = "createProduct"
  /\ \E resp \in PageResponses :
       LET Resume(res) ==
             ui' = IF res.success # TRUE
                   THEN Caught(ui, "Product creation", res.error)
                   ELSE [ui EXCEPT
                           !.products = Append(@, res.product),
                           !.isLoading = FALSE,
                           !.logs = addLog(addLog(addLog(@,
                                      "Product created: " \o ToStr(res.product.product_id),
                                      "success"),
                                      "Product details: " \o ToStr(res.product.name) \o " - "
                                        \o Hundredth(res.product.txamt.v) \o " "
                                        \o ToStr(res.product.txcurrcd), "info"),
                                      "Product ID auto-copied to subscription form", "info")]
       IN Resume(ServerResult(pending["createSampleProducts"], resp))
  /\ pending' = [pending EXCEPT !["createSampleProducts"] = [@ EXCEPT !.handler = "pause"]]
  /\ UNCHANGED serverVars

\* the 500 ms are over: the loop calls createProduct for the next product, or ends
pauseOver ==
  /\ pending["createSampleProducts"].handler = "pause"
  /\ IF pending["createSampleProducts"].index < Len(testProducts)
     THEN /\ ui' = createProduct(ui, pending["createSampleProducts"].config,
                                 pending["createSampleProducts"].index + 1)
          /\ pending' = [pending EXCEPT !["createSampleProducts"] =
                           AwaitingProduct(@.config, @.index + 1)]
     ELSE /\ Finish("createSampleProducts")
          /\ UNCHANGED ui
  /\ UNCHANGED serverVars

\* the page once mounted, the server idle
PageInit(page) ==
  /\ \E sdkLoaded \in BOOLEAN : ui = Mounted(page, sdkLoaded)
  /\ pending = [h \in Handlers |-> NoActivation]
  /\ inflight = [s \in Slots |-> IdleFrame]
  /\ pc = "idle"
  /\ call = NoCall
  /\ env = Str("envkey")
  /\ sigCalls = <<>>
  /\ requests = <<>>
  /\ response = NoResponse
  /\ result = NoResult

\* page.tsx
PageNext ==
  \/ initializeQFPay
  \/ createCustomerRecord
  \/ createCustomerRecordSettled
  \/ setupPaymentIntent
  \/ setupPaymentIntentSettled
  \/ processPayment
  \/ processPaymentSettled
  \/ resetDemo
  \/ clearLogs
  \/ setAppcode

\* every awaited call settles
CallsSettle ==
  /\ WF_vars(createCustomerRecordSettled)
  /\ WF_vars(setupPaymentIntentSettled)
  /\ WF_vars(processPaymentSettled)

LivePageSpec == PageInit("minimal") /\ [][PageNext]_vars /\ CallsSettle

\* the page with products and subscriptions: its handlers around the SDK
\* instance, the payment intent and the products
RecurringNext ==
  \/ initializeQFPay
  \/ setupPaymentIntent
  \/ setupPaymentIntentSettled
  \/ processPayment
  \/ processPaymentSettled
  \/ resetDemo
  \/ clearLogs
  \/ setAppcode
  \/ createSampleProducts
  \/ createProductSettled
  \/ pauseOver

RecurringSpec == PageInit("recurring") /\ [][RecurringNext]_vars

-----------------------------------------------------------------------------
(* Claims about generateQFPaySignature *)

\* the invocation is a direct call of generateQFPaySignature that has returned
SignatureReturned == pc = "returned" /\ call.op = "generateQFPaySignature"

\* key=value pairs in the given key order, values taken verbatim from the
\* caller's parameter set, an ampersand between consecutive pairs
RECURSIVE PairsJoined(_, _)
PairsJoined(keys, props) ==
  IF Len(keys) = 0 THEN ""
  ELSE LET first == Head(keys) \o "=" \o ToStr(Get(props, Head(keys)))
       IN IF Len(keys) = 1 THEN first
          ELSE first \o "&" \o PairsJoined(Tail(keys), props)

\* C1: every successful signing hashes exactly the string made of each pair of
\* the parameter set rendered key=value with the value verbatim, one pair per
\* key, joined by '&', followed directly by the resolved secret; {b:"2", a:"1"}
\* with secret "k" gives "a=1&b=2" and "a=1&b=2k".
Thm_C1_SignStringIsPairsThenSecret ==
  \A i \in 1..Len(sigCalls) :
    LET run == sigCalls[i]
    IN run.ret.success = TRUE =>
         /\ Len(run.keys) = Len(run.params.v)
         /\ \A j \in 1..Len(run.params.v) :
              \E n \in 1..Len(run.keys) : run.keys[n] = run.params.v[j][1]
         /\ run.paramString = PairsJoined(run.keys, run.params.v)
         /\ run.signString = PairsJoined(run.keys, run.params.v) \o run.secretKey.v
         /\ run.hashed
         /\ run.ret.signature = Hash(run.ret.signature.alg, run.signString)
         /\ (run.params.v = <<(<<"b", Str("2")>>), (<<"a", Str("1")>>)>>
               /\ run.secretKey = Str("k"))
              => (run.paramString = "a=1&b=2" /\ run.signString = "a=1&b=2k")

\* C1 witness: {b:"x&y=z", a:"1"} has been signed with the secret "k": the value
\* holding '&' and '=' went into the hashed string as it is
Wit_C1_ExampleSigned ==
  /\ SignatureReturned
  /\ result.success = TRUE
  /\ sigCalls[1].secretKey = Str("k")
  /\ sigCalls[1].params.v = <<(<<"b", Str("x&y=z")>>), (<<"a", Str("1")>>)>>
  /\ sigCalls[1].signString = "a=1&b=x&y=zk"

\* the orders in which a literal can list the keys of a parameter set
OrdersOf(props) ==
  {ks \in KeyOrders(Len(props)) :
     /\ Len(ks) = Len(props)
     /\ \A i \in 1..Len(props) : HasOwn(props, ks[i])}

\* C2: the parameter string and the signature do not depend on the order in
\* which the caller inserted the keys of the parameter set.
Thm_C2_InsertionOrderIrrelevant ==
  (SignatureReturned /\ call.params.t = "object") =>
    \A ks \in OrdersOf(call.params.v) :
      LET valueOf == [k \in {ks[i] : i \in 1..Len(ks)} |-> Get(call.params.v, k)]
          other == generateQFPaySignature(Obj(Literal(ks, valueOf)), Str("APP"),
                                          call.algorithm, call.clientKey, env)
      IN /\ other.paramString = sigCalls[1].paramString
         /\ other.ret = result

\* C2 witness: a parameter set whose keys were inserted in descending order
Wit_C2_KeysInsertedDescending ==
  /\ SignatureReturned
  /\ result.success = TRUE
  /\ call.literal = <<"b", "a">>

\* C3: the keys appear in the parameter string in strictly ascending byte
\* order, array-index keys ("9", "10") included.
CE_C3_KeysStrictlyAscending ==
  \A i \in 1..Len(sigCalls) :
    \A m, n \in 1..Len(sigCalls[i].keys) :
      m < n => StrLess(sigCalls[i].keys[m], sigCalls[i].keys[n])


-----------------------------------------------------------------------------
(* Claims about the operations' handling of gateway answers and of failures *)

Operations ==
  {"createCustomer", "createPaymentIntent", "createTokenIntent",
   "productCreate", "subscriptionCreate", "subscriptionQuery"}

Routes == {"productCreate", "subscriptionCreate", "subscriptionQuery"}

\* an operation has returned after the gateway answered with a status and a body
AnsweredAndReturned ==
  pc = "returned" /\ call.op \in Operations /\ response.kind = "http"

\* ... and the body was a JSON object
AnsweredWithObject ==
  /\ AnsweredAndReturned
  /\ response.body.json
  /\ response.body.value.t = "object"

\* C4: when the gateway answers with a non-2xx status, the operation returns a
\* failure whose error reports that status, whatever the body is.
CE_C4_Non2xxReportsStatus ==
  (AnsweredAndReturned /\ ~IsOk(response.status)) =>
    /\ result.success = FALSE
    /\ Contains(result.error, Dec(response.status))

\* C5: a 2xx answer whose JSON object has a respcd other than "0000" makes the
\* operation return success:false with an error carrying that respcd and the
\* respmsg ('Unknown error' when there is none); no operation returns
\* success:true on an answer whose respcd is not "0000".
Thm_C5_CodeNotSuccessIsFailure ==
  /\ (AnsweredWithObject /\ IsOk(response.status)
        /\ response.body.value.respcd # Str("0000")) =>
       /\ result.success = FALSE
       /\ response.body.value.respcd.t = "string" =>
            Contains(result.error, response.body.value.respcd.v)
       /\ IF response.body.value.respmsg.t = "string"
          THEN Contains(result.error, response.body.value.respmsg.v)
          ELSE Contains(result.error, "Unknown error")
  /\ (AnsweredAndReturned /\ result.success = TRUE) =>
       /\ response.body.json
       /\ response.body.value.t = "object"
       /\ response.body.value.respcd = Str("0000")

\* C5 witness: a 200 answer with respcd "1001" and no respmsg has been mapped
Wit_C5_Code1001NoMessage ==
  /\ AnsweredWithObject
  /\ response.status = 200
  /\ response.body.value.respcd = Str("1001")
  /\ response.body.value.respmsg = Undefined
  /\ result.success = FALSE
  /\ Contains(result.error, "1001 - Unknown error")

\* the normalized result inside a successful return value
Normalized(ret) ==
  CASE call.op = "createCustomer" -> ret.customer
    [] call.op = "createPaymentIntent" -> ret.paymentIntent
    [] call.op = "createTokenIntent" -> ret.tokenIntent
    [] call.op = "productCreate" -> ret.product
    [] call.op = "subscriptionCreate" -> ret.subscription
    [] OTHER -> ret.result

\* C6: a 2xx answer with respcd "0000" makes the operation return success:true
\* with a normalized result carrying the raw gateway JSON, also when the
\* answer has no data payload.
CE_C6_Code0000IsSuccess ==
  (AnsweredWithObject /\ IsOk(response.status)
     /\ response.body.value.respcd = Str("0000")) =>
    /\ result.success = TRUE
    /\ Normalized(result).raw_response = response.body.value

\* C7: every invocation ends by returning a value with a boolean success field,
\* and with an error string whenever success is false; nothing is thrown to
\* the caller.
Thm_C7_AlwaysReturnsSuccessFlag ==
  pc = "returned" =>
    /\ "success" \in DOMAIN result
    /\ result.success \in BOOLEAN
    /\ result.success = FALSE =>
         ("error" \in DOMAIN result /\ Len(result.error) > 0)

\* C7 witness: a route handler whose fetch was rejected (a connection failure)
\* has answered with the failure as a value
Wit_C7_ExceptionReturnedAsFailure ==
  /\ pc = "returned"
  /\ call.op \in Routes
  /\ response.kind = "networkError"
  /\ result.success = FALSE
  /\ result.error = "fetch failed"

\* the request of a route is a JSON object
RequestIsObject ==
  call.op \in Routes /\ call.request.json /\ call.request.value.t = "object"

\* the invocation was made without one of the fields its operation requires
LacksRequiredField ==
  \/ /\ RequestIsObject /\ call.op = "productCreate"
     /\ \E f \in {"name", "txamt", "txcurrcd", "appcode"} : call.request.value[f] = Undefined
  \/ /\ RequestIsObject /\ call.op = "subscriptionCreate"
     /\ \E f \in {"customer_id", "token_id", "products", "appcode"} :
          call.request.value[f] = Undefined
  \/ /\ RequestIsObject /\ call.op = "subscriptionQuery"
     /\ call.request.value.appcode = Undefined
  \/ /\ call.op = "createPaymentIntent"
     /\ call.amount = Undefined

\* C8: a request lacking a required field is rejected with success:false, no
\* signature having been computed and no request sent to the gateway.
Thm_C8_MissingFieldRejectedBeforeSigning ==
  LacksRequiredField =>
    /\ pc = "returned"
    /\ result.success = FALSE
    /\ sigCalls = <<>>
    /\ requests = <<>>

\* C8 witness: a product request complete but for appcode has been rejected
Wit_C8_MissingFieldRejected ==
  /\ pc = "returned"
  /\ LacksRequiredField
  /\ call.op = "productCreate"
  /\ call.request.value.appcode = Undefined
  /\ \A f \in {"name", "txamt", "txcurrcd"} : call.request.value[f] # Undefined
  /\ result.httpStatus = 400

\* the products value is an empty list, is not a list, or holds a bad entry
ProductsUnacceptable(products) ==
  \/ products.t # "array"
  \/ Len(products.v) = 0
  \/ \E i \in 1..Len(products.v) :
       \/ products.v[i].t # "object"
       \/ ~HasOwn(products.v[i].v, "product_id")
       \/ Get(products.v[i].v, "quantity").t # "number"

\* C9: subscription creation with such a products value returns success:false
\* and sends nothing to the gateway.
Thm_C9_BadProductsRejected ==
  (RequestIsObject /\ call.op = "subscriptionCreate"
     /\ ProductsUnacceptable(call.request.value.products)) =>
    /\ pc = "returned"
    /\ result.success = FALSE
    /\ requests = <<>>

\* C9 witness: an otherwise complete subscription request has been rejected for
\* its products: an empty list
Wit_C9_EmptyProductsRejected ==
  /\ pc = "returned"
  /\ RequestIsObject /\ call.op = "subscriptionCreate"
  /\ \A f \in {"customer_id", "token_id", "appcode"} : call.request.value[f] # Undefined
  /\ call.request.value.products = Arr(<<>>)
  /\ result.httpStatus = 400

\* the required fields of the operation invoked
RequiredFields ==
  CASE call.op = "productCreate" -> {"name", "txamt", "txcurrcd", "appcode"}
    [] call.op = "subscriptionCreate" -> {"customer_id", "token_id", "products", "appcode"}
    [] OTHER -> {"appcode"}

\* C10: when exactly one required field of a request is missing, the error
\* names that field and names no required field that was supplied.
CE_C10_ErrorNamesOnlyOffendingField ==
  (pc = "returned" /\ RequestIsObject) =>
    \A missing \in RequiredFields :
      (\A f \in RequiredFields : (call.request.value[f] = Undefined) <=> (f = missing)) =>
        /\ Contains(result.error, missing)
        /\ \A f \in RequiredFields \ {missing} : ~Contains(result.error, f)

-----------------------------------------------------------------------------
(* Claims about what is signed and what is sent *)

\* the character of a code unit
Chr(n) ==
  IF n <= 95 THEN SubSeq(AsciiLow, n - 31, n - 31) ELSE SubSeq(AsciiHigh, n - 96, n - 96)

HexValue(c) == (CHOOSE i \in 1..16 : SubSeq(HexDigits, i, i) = c) - 1

\* what the character at position i of a form-encoded string stands for: the two
\* hexadecimal digits after a '%' stand for nothing of their own
DecodeAt(s, i) ==
  LET c == SubSeq(s, i, i)
  IN IF (i > 1 /\ SubSeq(s, i - 1, i - 1) = "%") \/ (i > 2 /\ SubSeq(s, i - 2, i - 2) = "%")
     THEN ""
     ELSE IF c = "%"
     THEN Chr(16 * HexValue(SubSeq(s, i + 1, i + 1)) + HexValue(SubSeq(s, i + 2, i + 2)))
     ELSE IF c = "+" THEN " "
     ELSE c

RECURSIVE DecodeRange(_, _, _)
DecodeRange(s, lo, hi) ==
  IF lo > hi THEN ""
  ELSE IF lo = hi THEN DecodeAt(s, lo)
  ELSE DecodeRange(s, lo, (lo + hi) \div 2) \o DecodeRange(s, ((lo + hi) \div 2) + 1, hi)

\* the parts of s between occurrences of the character sep
RECURSIVE Split(_, _)
Split(s, sep) ==
  LET i == IndexOf(s, sep)
  IN IF i = 0 THEN <<s>>
     ELSE <<SubSeq(s, 1, i - 1)>> \o Split(SubSeq(s, i + 1, Len(s)), sep)

\* the fields a receiver of an application/x-www-form-urlencoded body reads
FormDecode(body) ==
  IF body = "" THEN <<>>
  ELSE LET pairs == Split(body, "&")
       IN [i \in 1..Len(pairs) |->
             LET eq == IndexOf(pairs[i], "=")
                 name == SubSeq(pairs[i], 1, eq - 1)
                 value == SubSeq(pairs[i], eq + 1, Len(pairs[i]))
             IN <<DecodeRange(name, 1, Len(name)), DecodeRange(value, 1, Len(value))>>]

\* the request an operation has issued and the signing that went before it
Issued == requests # <<>>
TheRequest == requests[1]
TheSigning == sigCalls[Len(sigCalls)]

\* C11: whenever an operation has sent a request, the fields a receiver decodes
\* from its body are exactly the signed parameters: the same keys, each once,
\* each with the string value that was signed.
Thm_C11_BodyIsTheSignedFields ==
  Issued =>
    LET sent == FormDecode(TheRequest.body)
        signed == TheSigning.params.v
    IN /\ Len(sent) = Len(signed)
       /\ {sent[i] : i \in 1..Len(sent)}
            = {<<signed[i][1], ToStr(signed[i][2])>> : i \in 1..Len(signed)}

\* C11 witness: a subscription request with both options has been sent, the
\* products as a JSON string among its fields
Wit_C11_SubscriptionWithOptionsSent ==
  /\ Issued
  /\ call.op = "subscriptionCreate"
  /\ Len(TheSigning.params.v) = 5
  /\ <<"products", "[{\"product_id\":\"prod_1\",\"quantity\":1}]">>
       \in {FormDecode(TheRequest.body)[i] : i \in 1..5}
  /\ <<"start_time", "2025-01-01 00:00:00">>
       \in {FormDecode(TheRequest.body)[i] : i \in 1..5}

\* the keys of the signed parameter set and of the fields sent
SignedKeys == {TheSigning.params.v[i][1] : i \in 1..Len(TheSigning.params.v)}
SentKeys == {TheRequest.fields[i][1] : i \in 1..Len(TheRequest.fields)}

\* the fields the gateway knows for each operation that takes a caller's object
GatewayFields ==
  CASE call.op = "productCreate" ->
         {"name", "txamt", "txcurrcd", "type", "description", "interval",
          "interval_count", "usage_type"}
    [] call.op = "subscriptionCreate" ->
         {"customer_id", "token_id", "products", "total_billing_cycles", "start_time"}
    [] call.op = "subscriptionQuery" ->
         {"page", "page_size", "subscription_id", "customer_id", "state"}
    [] call.op = "createCustomer" -> {"name", "phone", "email"}
    [] OTHER -> SignedKeys

\* C12: the parameter set an operation signs, and the body it sends, hold only
\* keys the gateway knows for that operation (for createCustomer exactly name,
\* phone and email); appcode and secretKey are never among them.
Thm_C12_OnlyGatewayFieldsSigned ==
  (call.op \in Operations /\ sigCalls # <<>>) =>
    /\ SignedKeys \subseteq GatewayFields
    /\ call.op = "createCustomer" => SignedKeys = GatewayFields
    /\ SignedKeys \cap {"appcode", "secretKey"} = {}
    /\ Issued => (SentKeys \subseteq GatewayFields
                     /\ SentKeys \cap {"appcode", "secretKey"} = {})

\* C12 witness: a product request carrying a property the gateway has no field
\* for, an appcode and a secretKey has been signed and sent
Wit_C12_UnknownPropertyDropped ==
  /\ Issued
  /\ call.op = "productCreate"
  /\ call.request.value.note = Str("vip")
  /\ call.request.value.secretKey = Str("k")
  /\ call.request.value.appcode = Str("APP")
  /\ "note" \notin SignedKeys

-----------------------------------------------------------------------------
(* Claims about the parameters of single operations *)

\* a string with a character other than white space in it
NonBlank(x) == x.t = "string" /\ \E i \in 1..Len(x.v) : SubSeq(x.v, i, i) # " "

\* C13: the parameter set createPaymentIntent signs holds exactly txamt (the
\* decimal string of amount), txcurrcd, pay_type "802801", out_trade_no and
\* txdtm, plus customer_id exactly when customerId is not blank and
\* intent_expiry exactly when tokenExpiry is not blank, each trimmed; amount
\* 500, currency HKD, no customer id and no expiry give the five keys alone.
Thm_C13_PaymentIntentParameterSet ==
  (call.op = "createPaymentIntent" /\ sigCalls # <<>>) =>
    LET signed == TheSigning.params.v
    IN /\ SignedKeys = {"txamt", "txcurrcd", "pay_type", "out_trade_no", "txdtm"}
                         \cup (IF NonBlank(call.customerId) THEN {"customer_id"} ELSE {})
                         \cup (IF NonBlank(call.tokenExpiry) THEN {"intent_expiry"} ELSE {})
       /\ Len(signed) = Cardinality(SignedKeys)
       /\ Get(signed, "txamt") = Str(Dec(call.amount.v))
       /\ Get(signed, "txcurrcd")
            = (IF call.currency = Undefined THEN Str("HKD") ELSE call.currency)
       /\ Get(signed, "pay_type") = Str("802801")
       /\ NonBlank(call.customerId) =>
            /\ Get(signed, "customer_id") = Str(Trim(call.customerId.v))
            /\ Contains(call.customerId.v, Get(signed, "customer_id").v)
            /\ ~Contains(Get(signed, "customer_id").v, " ")
       /\ NonBlank(call.tokenExpiry) =>
            /\ Get(signed, "intent_expiry") = Str(Trim(call.tokenExpiry.v))
            /\ Contains(call.tokenExpiry.v, Get(signed, "intent_expiry").v)
       /\ Issued => TheRequest.fields = FormOf(signed)

\* C13 witness: amount 500 in HKD without customer id or expiry has been signed:
\* five keys, txamt "500", and a txdtm in the gateway's format
Wit_C13_FiveKeysForAmount500 ==
  /\ Issued
  /\ call.op = "createPaymentIntent"
  /\ call.amount = Num(500) /\ call.currency = Str("HKD")
  /\ call.customerId = Null /\ call.tokenExpiry = Null
  /\ FormOf(TheSigning.params.v)
       = <<(<<"txamt", "500">>), (<<"txcurrcd", "HKD">>), (<<"pay_type", "802801">>),
           (<<"out_trade_no", "QF_90061001_K3J9ZQ">>),
           (<<"txdtm", "1970-01-02 01:01:01">>)>>

\* a subscription query has been answered with success
QuerySucceeded ==
  /\ pc = "returned" /\ call.op = "subscriptionQuery"
  /\ result.success = TRUE

\* C14 as stated: a successful query reports page 1 and page_size 10 when the
\* request supplied none, and the supplied value whenever it supplied one.
CE_C14_SuppliedPagingReported ==
  QuerySucceeded =>
    /\ result.result.page
         = (IF call.request.value.page = Undefined THEN Num(1)
            ELSE call.request.value.page)
    /\ result.result.page_size
         = (IF call.request.value.page_size = Undefined THEN Num(10)
            ELSE call.request.value.page_size)

\* C14, amended: a successful query reports the supplied page and page_size
\* when they are positive integers, and 1 and 10 when they are absent or 0.
Thm_C14_PagingReportedOrDefaulted ==
  QuerySucceeded =>
    LET page == call.request.value.page
        pageSize == call.request.value.page_size
    IN /\ result.result.page
            = (IF page.t = "number" /\ page.v > 0 THEN page ELSE Num(1))
       /\ result.result.page_size
            = (IF pageSize.t = "number" /\ pageSize.v > 0 THEN pageSize ELSE Num(10))

\* C14 witness: a query that supplied page 0 and no page_size has succeeded
Wit_C14_PageZeroDefaulted ==
  /\ QuerySucceeded
  /\ call.request.value.page = Num(0)
  /\ call.request.value.page_size = Undefined
  /\ result.result.page = Num(1)
  /\ result.result.page_size = Num(10)

-----------------------------------------------------------------------------
(* Claims about the digest and the secret *)

\* C15: whenever generateQFPaySignature returns a signature, the signature-type
\* header names the digest that was computed: "MD5" exactly for an MD5 digest,
\* "SHA256" exactly for a SHA-256 digest, and nothing else.
CE_C15_HeaderNamesDigestUsed ==
  \A i \in 1..Len(sigCalls) :
    sigCalls[i].ret.success = TRUE =>
      LET ret == sigCalls[i].ret
      IN /\ ret.headers.XQFSIGNTYPE \in {"MD5", "SHA256"}
         /\ (ret.headers.XQFSIGNTYPE = "MD5") <=> (ret.signature.alg = "md5")
         /\ (ret.headers.XQFSIGNTYPE = "SHA256") <=> (ret.signature.alg = "sha256")

\* a string that is not empty
NonEmpty(x) == x.t = "string" /\ x.v # ""

\* C16: the secret is the key supplied if not empty, else the configured key if
\* not empty, else the empty string; with an empty secret the signing does not
\* fail: it returns success:true and the digest of the parameter string alone.
Thm_C16_EmptySecretStillSigns ==
  /\ SignatureReturned =>
       sigCalls[1].secretKey
         = (IF NonEmpty(call.clientKey) THEN call.clientKey
            ELSE IF NonEmpty(env) THEN env
            ELSE Str(""))
  /\ \A i \in 1..Len(sigCalls) :
       LET run == sigCalls[i]
       IN (run.secretKey = Str("") /\ run.params.t = "object") =>
            /\ run.signString = run.paramString
            /\ run.hashed =>
                 /\ run.ret.success = TRUE
                 /\ run.ret.signature = Hash(run.ret.signature.alg, run.paramString)
            /\ (SignatureReturned /\ call.algorithm # Null) => run.hashed

\* C16 witness: no key supplied and none configured, and {a: "1"} has been signed
Wit_C16_SignedWithoutSecret ==
  /\ SignatureReturned
  /\ call.clientKey = Null /\ env = Undefined
  /\ call.params = Obj(<<(<<"a", Str("1")>>)>>)
  /\ result.success = TRUE
  /\ sigCalls[1].signString = "a=1"

\* C17: a subscription request without start_time is signed and sent with a
\* start_time holding the current UTC time in the gateway's format; a
\* start_time that was supplied is passed through as it is.
CE_C17_StartTimeDefaultsToNow ==
  (Issued /\ call.op = "subscriptionCreate") =>
    IF call.request.value.start_time = Undefined
    THEN \E now \in Clocks :
           /\ Get(TheSigning.params.v, "start_time") = Str(GatewayTime(now))
           /\ <<"start_time", GatewayTime(now)>>
                \in {TheRequest.fields[i] : i \in 1..Len(TheRequest.fields)}
    ELSE /\ Get(TheSigning.params.v, "start_time") = call.request.value.start_time
         /\ <<"start_time", call.request.value.start_time.v>>
              \in {TheRequest.fields[i] : i \in 1..Len(TheRequest.fields)}

\* the secret the request's signature was made with
TheSecret == TheSigning.secretKey.v

\* there is a secret, and neither the parameters that were signed nor the
\* appcode hold it
SecretApartFromInputs ==
  /\ TheSecret # ""
  /\ \A i \in 1..Len(TheSigning.params.v) :
       /\ ~Contains(TheSigning.params.v[i][1], TheSecret)
       /\ ~Contains(ToStr(TheSigning.params.v[i][2]), TheSecret)
  /\ ~Contains(ToStr(TheRequest.headers.XQFAPPCODE), TheSecret)

\* C18: the request an operation sends holds the secret nowhere, in no header,
\* not in the URL and not in the body, unless the parameters themselves hold
\* it; the signature header is the digest of the sign string.
Thm_C18_SecretNotTransmitted ==
  (Issued /\ SecretApartFromInputs) =>
    /\ ~Contains(TheRequest.url, TheSecret)
    /\ ~Contains(TheRequest.body, TheSecret)
    /\ \A i \in 1..Len(TheRequest.fields) :
         /\ ~Contains(TheRequest.fields[i][1], TheSecret)
         /\ ~Contains(TheRequest.fields[i][2], TheSecret)
    /\ DOMAIN TheRequest.headers
         = {"XQFAPPCODE", "XQFSIGN", "XQFSIGNTYPE", "ContentType", "Accept"}
    /\ ~Contains(TheRequest.headers.XQFSIGN.digest, TheSecret)
    /\ ~Contains(TheRequest.headers.XQFSIGNTYPE, TheSecret)
    /\ ~Contains(TheRequest.headers.ContentType, TheSecret)
    /\ ~Contains(TheRequest.headers.Accept, TheSecret)
    /\ Len(TheRequest.headers.XQFSIGN.digest) = 4

\* C18 witness: a product request signed with the secretKey "k" of its body has
\* been sent
Wit_C18_SignedWithBodySecretAndSent ==
  /\ Issued /\ SecretApartFromInputs
  /\ call.op = "productCreate"
  /\ call.request.value.secretKey = Str("k")
  /\ TheSecret = "k"
  /\ Contains(TheSigning.signString, "HKDk")

-----------------------------------------------------------------------------
(* Claims about the requests of an invocation and its return *)

\* C19: an invocation sends at most one request to the gateway: exactly one is
\* on record while it awaits the answer and after it has returned on an answer
\* or a transport error, whatever the outcome; none when it returned before.
Thm_C19_AtMostOneRequest ==
  /\ Len(requests) <= 1
  /\ pc = "awaitingGateway" => Len(requests) = 1
  /\ (pc = "returned" /\ response # NoResponse) => Len(requests) = 1
  /\ (pc = "returned" /\ response = NoResponse) => requests = <<>>

\* C19 witness: createPaymentIntent has returned a failure on a 500 answer, one
\* request sent
Wit_C19_FailureAfterOneRequest ==
  /\ pc = "returned"
  /\ call.op = "createPaymentIntent"
  /\ response.kind = "http" /\ response.status = 500
  /\ result.success = FALSE
  /\ Len(requests) = 1

\* C20: every invocation returns: one that has been made leads to its result,
\* and the step an awaiting operation takes is the one that receives the
\* answer or the transport error and returns.
Thm_C20_EveryInvocationReturns ==
  /\ (call # NoCall) ~> (pc = "returned" /\ result.success \in BOOLEAN)
  /\ [][pc = "awaitingGateway" => (pc' = "returned" /\ response' # NoResponse)]_vars

\* C20 witness: createCustomer has returned on a transport error
Wit_C20_ReturnedOnTransportError ==
  /\ pc = "returned"
  /\ call.op = "createCustomer"
  /\ response = NetworkError
  /\ result.success = FALSE

-----------------------------------------------------------------------------
(* Claims about invocations running side by side *)

\* C21: whatever else runs beside it, an invocation signs, sends and returns
\* what it would if it ran alone with the same arguments, secret, clock and
\* random draws and gateway answer.
Thm_C21_InvocationsIndependent ==
  \A s \in Slots :
    LET f == inflight[s]
        alone == BeginOf(f.call, env)
    IN f.pc # "idle" =>
         /\ f.pc = "awaitingSignature" =>
              (f.requests = <<>> /\ f.locals.runs = alone.runs /\ ~alone.done)
         /\ f.pc = "awaitingGateway" =>
              (f.requests = <<alone.request>> /\ f.locals.runs = alone.runs)
         /\ f.pc = "returned" =>
              IF alone.done
              THEN f.requests = <<>> /\ f.result = alone.ret
              ELSE /\ f.requests = <<alone.request>>
                   /\ f.locals.runs = alone.runs
                   /\ f.result = SettleOf(f.call, alone.requestParams, f.response)

\* C21 witness: while a createCustomer signed with the configured key awaits the
\* gateway, another signed with "k" has been answered and has returned
Wit_C21_OneReturnsWhileOtherAwaits ==
  /\ inflight[1].pc = "awaitingGateway"
  /\ inflight[1].call.op = "createCustomer" /\ inflight[1].call.secretKey = Null
  /\ inflight[2].pc = "returned"
  /\ inflight[2].call.op = "createCustomer" /\ inflight[2].call.secretKey = Str("k")
  /\ inflight[2].result.success = TRUE
  /\ inflight[2].result.customer.name = Str("Ann Lee")

-----------------------------------------------------------------------------
(* Claims about failures and the order of steps *)

\* C22: when the gateway answers with a non-2xx status, the failure returned
\* keeps the status and the body the gateway sent (here: a body that is JSON),
\* in the server actions as in the route handlers.
CE_C22_FailureKeepsStatusAndBody ==
  (AnsweredAndReturned /\ ~IsOk(response.status) /\ response.body.json) =>
    /\ result.success = FALSE
    /\ Contains(result.error, Dec(response.status))
    /\ "details" \in DOMAIN result
    /\ result.details = response.body.value

\* C23: every parameter set an operation hands to generateQFPaySignature has at
\* least one key, so no signature sent is the digest of the secret alone.
CE_C23_NeverSignsEmptySet ==
  call.op \in Operations =>
    /\ \A i \in 1..Len(sigCalls) :
         sigCalls[i].params.t = "object" /\ Len(sigCalls[i].params.v) >= 1
    /\ Issued => TheSigning.signString # ToStr(TheSigning.secretKey)

\* C24: an operation validates, builds, signs, sends and maps in that order.
\* A request exists only after generateQFPaySignature returned success for
\* the parameter set the request carries: its signature header is the returned
\* signature and its fields are the signed parameters, unchanged.  When the
\* signing returned a failure no request exists and the operation has returned
\* a failure; a result is mapped from an answer only after the request was
\* sent, and a rejected input returns before any signing.
Thm_C24_ValidateBuildSignSendMap ==
  call.op \in Operations =>
    /\ Issued =>
         /\ Len(sigCalls) = 1
         /\ TheSigning.ret.success = TRUE
         /\ TheRequest.headers.XQFSIGN = TheSigning.ret.signature
         /\ TheSigning.ret.signature
              = Hash("md5", SignString(ParamString(Ordered(TheSigning.params.v)),
                                       TheSigning.secretKey))
         /\ TheRequest.fields
              = [i \in 1..Len(TheSigning.params.v) |->
                   <<TheSigning.params.v[i][1], ToStr(TheSigning.params.v[i][2])>>]
    /\ (sigCalls # <<>> /\ TheSigning.ret.success # TRUE) =>
         /\ requests = <<>>
         /\ pc = "returned"
         /\ result.success = FALSE
    /\ response.kind # "none" => (Issued /\ pc = "returned")
    /\ (pc = "returned" /\ result.success = TRUE) => response.kind = "http"
    /\ (pc = "returned" /\ sigCalls = <<>>) => (requests = <<>> /\ result.success = FALSE)

\* C24 witness: the subscription query whose signing failed on the secret
\* returned its failure without a request
Wit_C24_SigningFailedNothingSent ==
  /\ call.op = "subscriptionQuery"
  /\ pc = "returned"
  /\ Len(sigCalls) = 1
  /\ TheSigning.ret.success = FALSE
  /\ TheSigning.paramString = "page=2"
  /\ requests = <<>>
  /\ result.success = FALSE
  /\ result.httpStatus = 500

\* C25: generateQFPaySignature writes no line to its log that holds the
\* secret, whenever there is a secret that the parameters, the appcode and the
\* algorithm name do not hold themselves.
CE_C25_SecretNotLogged ==
  \A i \in 1..Len(sigCalls) :
    LET run == sigCalls[i]
        secret == run.secretKey.v
    IN (/\ run.secretKey.t = "string"
        /\ secret # ""
        /\ \A l \in 2..4 : ~Contains(run.log[l], secret))
         => \A l \in 1..Len(run.log) : ~Contains(run.log[l], secret)

\* C26: the reply of a route handler has a 2xx status exactly when its body
\* says success:true; a failed signing replies 500, a gateway answer with a
\* non-2xx status replies that status, a 2xx answer whose respcd is not "0000"
\* replies 400, and a request rejected before signing replies 400 (500 when
\* reading it threw).
CE_C26_StatusAgreesWithSuccess ==
  (call.op \in Routes /\ pc = "returned") =>
    /\ IsOk(result.httpStatus) <=> result.success = TRUE
    /\ (sigCalls # <<>> /\ TheSigning.ret.success # TRUE) => result.httpStatus = 500
    /\ (response.kind = "http" /\ ~IsOk(response.status))
         => result.httpStatus = response.status
    /\ (AnsweredWithObject /\ IsOk(response.status)
          /\ NotSuccessCode(response.body.value))
         => result.httpStatus = 400
    /\ response.kind = "networkError" => result.httpStatus = 500
    /\ sigCalls = <<>> => result.httpStatus \in {400, 500}

-----------------------------------------------------------------------------
(* Claims about the pages *)

\* the handlers suspended at a call that goes to the gateway
AwaitingGateway ==
  {h \in Handlers :
     pending[h].handler \in {"createCustomerRecord", "setupPaymentIntent",
                             "processPayment", "createProduct"}}

\* C27: on the page at most one gateway operation is in flight at any time,
\* whatever is clicked, also while createSampleProducts runs its loop.
CE_C27_OneOperationInFlight == Cardinality(AwaitingGateway) <= 1

\* C28: a payment intent id is stored only while an SDK instance is.
CE_C28_IntentOnlyWithInstance == ui.paymentIntentId # Null => ui.qfpay # Null

\* the messages set by the precondition checks of the handlers
PreconditionErrors ==
  {Str("QFPay SDK not loaded for qa environment. Please refresh the page."),
   Str("APPCODE is required for customer creation"),
   Str("QFPay not initialized"),
   Str("APPCODE is required")}

\* C29: a handler that set isLoading sets it back to false when its awaited
\* call settles, with either outcome, and every such call is followed by that
\* step; a handler starts only when its preconditions hold, and a step that
\* sets a precondition's error changes neither isLoading nor the log and
\* suspends no handler at a call.
Thm_C29_LoadingEndsAndRejectionsAreInert ==
  /\ (ui.isLoading \/ \E h \in Handlers : pending[h] # NoActivation)
       ~> (~ui.isLoading /\ \A h \in Handlers : pending[h] = NoActivation)
  /\ [][/\ \A h \in Handlers :
            /\ (pending[h] # NoActivation /\ pending'[h] = NoActivation) => ~ui'.isLoading
            /\ (pending[h] = NoActivation /\ pending'[h] # NoActivation) =>
                 /\ ui'.isLoading
                 /\ h \in {"createCustomerRecord", "setupPaymentIntent"}
                      => Trim(ui.config.appcode) # ""
                 /\ h \in {"setupPaymentIntent", "processPayment"} => ui.qfpay # Null
        /\ (ui.qfpay = Null /\ ui'.qfpay # Null) => ui.sdkLoaded
        /\ (ui'.error \in PreconditionErrors /\ ui'.error # ui.error) =>
             /\ ui' = [ui EXCEPT !.error = ui'.error]
             /\ pending' = pending
             /\ ~ui'.isLoading]_vars

\* C29 witness: the payment intent was refused, the handler has ended with the
\* error shown and isLoading false again
Wit_C29_SetupFailedLoadingOver ==
  /\ ui.page = "minimal"
  /\ pending = [h \in Handlers |-> NoActivation]
  /\ ~ui.isLoading
  /\ ui.error = Str("QFPay error: 1001 - Invalid signature")
  /\ ui.logs[1].message = "Payment intent setup failed: QFPay error: 1001 - Invalid signature"

\* C30: resetDemo leaves the configuration as it is and puts everything else
\* back to what it was when the page was mounted, with the log holding the
\* single entry of the reset.
CE_C30_ResetRestoresInitialState ==
  [][resetDemo =>
       ui' = [Mounted(ui.page, ui.sdkLoaded) EXCEPT
                !.config = ui.config,
                !.logs = <<[message |-> "Demo reset - ready to start over",
                            type |-> "info"]>>]]_vars

====
